---------------------------- MODULE Spec2Model ----------------------------
(***************************************************************************)
(* Model of the invoice field extraction engine                            *)
(* (src/src/invoice_extractor.py, src/src/pdf_parser.py).                  *)
(*                                                                         *)
(* A text is a sequence of characters, a character is a string.  ASCII     *)
(* characters stand for themselves (" ", "0".."9", "A".."Z", punctuation;  *)
(* "\t", "\n", "\f", "\r" for tab, line feed, form feed and carriage       *)
(* return).  Every other character is written "uXXXX", its code point in   *)
(* hexadecimal: "u5e74" is U+5E74 (年), "u000b" the vertical tab, "u3000"  *)
(* the ideographic space.  A table grid is a sequence of                   *)
(* rows, a row a sequence of cells, a cell a text; the empty text stands   *)
(* for both None and "" (the code tests cells only for truthiness).        *)
(* A Python float is a binary64 number with its own arithmetic (see the    *)
(* section on floats).                                                     *)
(* The confidence is kept as the pair matched_fields / total_fields.       *)
(***************************************************************************)
EXTENDS Integers, Sequences, FiniteSets

VARIABLES
    text,      \* PDFContent.raw_text of the document at hand
    tables,    \* PDFContent.tables of the document at hand
    pc,        \* "input": nothing called yet; then the call that returned:
               \* "from_text", "from_pdf", "validated" or, with the
               \* record rebuilt by run_automation, "automation"
               \* "raised" when the call ended with an exception
    invoice,   \* the InvoiceData the call returned
    verdict,   \* how _is_valid_taiwan_tax_id ended: "valid" (True), "invalid"
               \* (False), "ValueError" (raised); "none" before a call;
               \* for pc = "raised" the exception that left the call
    file_path, \* the path given to extract_from_pdf: what is there
               \* ("missing", a "directory", a PDF "document", or an
               \* "unreadable" file that is no PDF the decoder can read),
               \* the suffix of its name, and what os.stat() does on
               \* it: it "answers", or it raises "OSError" (the name is
               \* longer than the file system takes) or
               \* "PermissionError" (a directory on the way may not be
               \* searched)
    workers    \* the workers that run _extract_invoice_data step by step,
               \* each with its own extractor: a sequence of records of
               \* their local variables; empty where calls are atomic

vars == <<text, tables, pc, invoice, verdict, file_path, workers>>

---------------------------------------------------------------------------
(* Characters and the character classes the regular expressions use.       *)

\* "0".."9"
AsciiDigit == {"0", "1", "2", "3", "4", "5", "6", "7", "8", "9"}

\* the full-width digits U+FF10..U+FF19
FullwidthDigit == {"uff10", "uff11", "uff12", "uff13", "uff14", "uff15",
                   "uff16", "uff17", "uff18", "uff19"}

\* \d of a str pattern: the decimal digits of Unicode, of which the model
\* has the ASCII and the full-width ones
Digit == AsciiDigit \cup FullwidthDigit

\* superscript two, U+00B2: str.isdigit() holds and int() raises ValueError
c_sup2 == "u00b2"

\* the characters for which str.isdigit() holds
IsDigit == Digit \cup {c_sup2}

\* int(c) of a decimal digit
DigitVal(c) ==
    CASE c \in {"0", "uff10"} -> 0 [] c \in {"1", "uff11"} -> 1
      [] c \in {"2", "uff12"} -> 2 [] c \in {"3", "uff13"} -> 3
      [] c \in {"4", "uff14"} -> 4 [] c \in {"5", "uff15"} -> 5
      [] c \in {"6", "uff16"} -> 6 [] c \in {"7", "uff17"} -> 7
      [] c \in {"8", "uff18"} -> 8 [] c \in {"9", "uff19"} -> 9

DigitChar(n) ==
    CASE n = 0 -> "0" [] n = 1 -> "1" [] n = 2 -> "2" [] n = 3 -> "3"
      [] n = 4 -> "4" [] n = 5 -> "5" [] n = 6 -> "6" [] n = 7 -> "7"
      [] n = 8 -> "8" [] n = 9 -> "9"

\* [A-Z]
Upper == {"A", "B", "C", "D", "E", "F", "G", "H", "I", "J", "K", "L", "M",
          "N", "O", "P", "Q", "R", "S", "T", "U", "V", "W", "X", "Y", "Z"}

\* [a-z]
Lower == {"a", "b", "c", "d", "e", "f", "g", "h", "i", "j", "k", "l", "m",
          "n", "o", "p", "q", "r", "s", "t", "u", "v", "w", "x", "y", "z"}

\* [A-D]
UpperAD == {"A", "B", "C", "D"}

\* \s of a str pattern and the characters str.strip() removes: those
\* for which str.isspace() holds
Space == {"\t", "\n", "u000b", "\f", "\r", "u001c", "u001d", "u001e",
          "u001f", " ", "u0085", "u00a0", "u1680", "u2000", "u2001", "u2002",
          "u2003", "u2004", "u2005", "u2006", "u2007", "u2008", "u2009",
          "u200a", "u2028", "u2029", "u202f", "u205f", "u3000"}

\* the white space float() drops around a number: as above, without the
\* separators U+001C..U+001F
FloatSpace == Space \ {"u001c", "u001d", "u001e", "u001f"}

\* The CJK characters of the patterns and of the modelled documents.
c_nian  == "u5e74"  \* 年
c_yue   == "u6708"  \* 月
c_ri    == "u65e5"  \* 日
c_he    == "u5408"  \* 合
c_ji    == "u8a08"  \* 計
c_zong  == "u7e3d"  \* 總
c_e     == "u984d"  \* 額
c_ying  == "u61c9"  \* 應
c_fu    == "u4ed8"  \* 付
c_ying2 == "u71df"  \* 營
c_ye    == "u696d"  \* 業
c_shui  == "u7a05"  \* 稅
c_jin   == "u91d1"  \* 金
c_xiao  == "u5c0f"  \* 小
c_wei   == "u672a"  \* 未
c_xiao2 == "u92b7"  \* 銷
c_shou  == "u552e"  \* 售
c_gu    == "u80a1"  \* 股
c_fen   == "u4efd"  \* 份
c_you   == "u6709"  \* 有
c_xian  == "u9650"  \* 限
c_gong  == "u516c"  \* 公
c_si    == "u53f8"  \* 司
c_qi    == "u4f01"  \* 企
c_hang  == "u884c"  \* 行
c_hao   == "u865f"  \* 號
c_shang == "u5546"  \* 商
c_gong2 == "u5de5"  \* 工
c_chang == "u5ee0"  \* 廠
c_shi   == "u4e8b"  \* 事
c_wu    == "u52d9"  \* 務
c_suo   == "u6240"  \* 所
c_mai   == "u8ce3"  \* 賣
c_mai2  == "u8cb7"  \* 買
c_fang  == "u65b9"  \* 方
c_ren   == "u4eba"  \* 人
c_pin   == "u54c1"  \* 品
c_ming  == "u540d"  \* 名
c_xiang == "u9805"  \* 項
c_mu    == "u76ee"  \* 目
c_cheng == "u7a31"  \* 稱
c_shu   == "u6578"  \* 數
c_liang == "u91cf"  \* 量
c_dan   == "u55ae"  \* 單
c_jia   == "u50f9"  \* 價
c_ge    == "u683c"  \* 格
c_tong  == "u7d71"  \* 統
c_bian  == "u7de8"  \* 編
c_da    == "u5927"  \* 大
c_tian  == "u5929"  \* 天
c_bi    == "u7b46"  \* 筆
c_zhi   == "u7d19"  \* 紙
c_yi    == "u4e00"  \* 一
c_fcolon == "uff1a" \* ：(full-width colon, not in the CJK range)

\* [一-鿿]
CJK == {c_nian, c_yue, c_ri, c_he, c_ji, c_zong, c_e, c_ying, c_fu, c_ying2,
        c_ye, c_shui, c_jin, c_xiao, c_wei, c_xiao2, c_shou, c_gu, c_fen,
        c_you, c_xian, c_gong, c_si, c_qi, c_hang, c_hao, c_shang, c_gong2,
        c_chang, c_shi, c_wu, c_suo, c_mai, c_mai2, c_fang, c_ren, c_pin,
        c_ming, c_xiang, c_mu, c_cheng, c_shu, c_liang, c_dan, c_jia, c_ge,
        c_tong, c_bian, c_da, c_tian, c_bi, c_zhi, c_yi}

\* \w (Unicode): letters, digits, underscore; CJK characters are letters,
\* superscript two is alphanumeric.
Word == IsDigit \cup Upper \cup Lower \cup CJK \cup {"_"}

---------------------------------------------------------------------------
(* Helpers on texts.                                                       *)

Min(S) == CHOOSE x \in S : \A y \in S : x <= y

Max(S) == CHOOSE x \in S : \A y \in S : x >= y

In(t, i) == i >= 1 /\ i <= Len(t)

\* t[i] exists and is in class C
IsAt(t, i, C) == In(t, i) /\ t[i] \in C

\* the n characters from i on exist and are all in class C
AllAt(t, i, n, C) == \A j \in i..(i + n - 1) : IsAt(t, j, C)

\* length of the run of class-C characters that starts at i
RECURSIVE RunLen(_, _, _)
RunLen(t, i, C) == IF IsAt(t, i, C) THEN 1 + RunLen(t, i + 1, C) ELSE 0

\* the same, at most cap
RECURSIVE Run(_, _, _, _)
Run(t, i, cap, C) ==
    IF cap = 0 \/ ~IsAt(t, i, C) THEN 0 ELSE 1 + Run(t, i + 1, cap - 1, C)

\* the literal w occurs in t at i
LitAt(t, i, w) == \A j \in 1..Len(w) : In(t, i + j - 1) /\ t[i + j - 1] = w[j]

\* str.lower() on the characters of the alphabet
LowerMap ==
    [A |-> "a", B |-> "b", C |-> "c", D |-> "d", E |-> "e", F |-> "f",
     G |-> "g", H |-> "h", I |-> "i", J |-> "j", K |-> "k", L |-> "l",
     M |-> "m", N |-> "n", O |-> "o", P |-> "p", Q |-> "q", R |-> "r",
     S |-> "s", T |-> "t", U |-> "u", V |-> "v", W |-> "w", X |-> "x",
     Y |-> "y", Z |-> "z"]

LowerOf(c) == IF c \in Upper THEN LowerMap[c] ELSE c

\* the literal w occurs in t at i, ignoring case (re.IGNORECASE)
LitAtI(t, i, w) ==
    \A j \in 1..Len(w) :
        In(t, i + j - 1) /\ LowerOf(t[i + j - 1]) = LowerOf(w[j])

\* str.replace(c, "")
Remove(t, c) == SelectSeq(t, LAMBDA x : x # c)

\* int(s) for a string of ASCII digits
RECURSIVE ToInt(_)
ToInt(s) ==
    IF Len(s) = 0 THEN 0
    ELSE 10 * ToInt(SubSeq(s, 1, Len(s) - 1)) + DigitVal(s[Len(s)])

\* str(n) for n >= 0
RECURSIVE ToStr(_)
ToStr(n) ==
    IF n < 10 THEN <<DigitChar(n)>>
    ELSE ToStr(n \div 10) \o <<DigitChar(n % 10)>>

\* format(n, "02d") for n >= 0
Fmt02d(n) == IF n < 10 THEN <<"0">> \o ToStr(n) ELSE ToStr(n)

\* \b at the gap before position p
WordBoundary(t, p) == IsAt(t, p - 1, Word) # IsAt(t, p, Word)

---------------------------------------------------------------------------
(* PATTERNS["invoice_number"] and _extract_invoice_number.                 *)

\* [-\s]
HyphenOrSpace == Space \cup {"-"}

\* length of the match of [A-Z][A-D][-\s]?\d{8} that starts at i, 0 if none
InvoiceNumberMatchLen(t, i) ==
    IF IsAt(t, i, Upper) /\ IsAt(t, i + 1, UpperAD)
    THEN IF IsAt(t, i + 2, HyphenOrSpace) /\ AllAt(t, i + 3, 8, Digit)
         THEN 11
         ELSE IF AllAt(t, i + 2, 8, Digit) THEN 10 ELSE 0
    ELSE 0

_extract_invoice_number(t) ==
    LET starts == {i \in 1..Len(t) : InvoiceNumberMatchLen(t, i) > 0}
    IN  IF starts = {} THEN <<>>
        ELSE LET i == Min(starts)
                 m == SubSeq(t, i, i + InvoiceNumberMatchLen(t, i) - 1)
             IN  Remove(Remove(m, " "), "-")

---------------------------------------------------------------------------
(* _is_valid_taiwan_tax_id, PATTERNS["tax_id"] and _extract_tax_ids.       *)

weights == <<1, 2, 1, 2, 1, 2, 4, 1>>

\* the loop of lines 268-272: q, r = divmod(product, 10); total += q + r
RECURSIVE TaxIdTotal(_, _)
TaxIdTotal(tax_id, n) ==
    IF n = 0 THEN 0
    ELSE LET product == DigitVal(tax_id[n]) * weights[n]
         IN  TaxIdTotal(tax_id, n - 1) + (product \div 10) + (product % 10)

\* lines 260-261: the format test, len(tax_id) != 8 or not tax_id.isdigit()
TaxIdFormatOk(tax_id) ==
    Len(tax_id) = 8 /\ AllAt(tax_id, 1, Len(tax_id), IsDigit)

\* line 269: int(digit) raises ValueError for a character that passed
\* isdigit() and is no decimal digit
TaxIdValueError(tax_id) ==
    TaxIdFormatOk(tax_id) /\ \E i \in 1..8 : tax_id[i] \notin Digit

\* the validator without the rule of lines 278-280
is_valid_basic_rule_only(tax_id) ==
    IF ~TaxIdFormatOk(tax_id) THEN FALSE
    ELSE TaxIdTotal(tax_id, 8) % 10 = 0

\* the validator whose rule of lines 278-280 does not look at index 6
is_valid_plus_one_anywhere(tax_id) ==
    IF ~TaxIdFormatOk(tax_id) THEN FALSE
    ELSE LET total == TaxIdTotal(tax_id, 8)
         IN  IF total % 10 = 0 THEN TRUE
             ELSE IF (total + 1) % 10 = 0 THEN TRUE
             ELSE FALSE

\* what the call returns, for a tax_id on which it does not raise
_is_valid_taiwan_tax_id(tax_id) ==
    IF ~TaxIdFormatOk(tax_id) THEN FALSE
    ELSE LET total == TaxIdTotal(tax_id, 8)
         IN  IF total % 10 = 0 THEN TRUE
             ELSE IF tax_id[7] = "7" /\ (total + 1) % 10 = 0 THEN TRUE
             ELSE FALSE

\* \b\d{8}\b matches at i
TaxIdMatchAt(t, i) ==
    AllAt(t, i, 8, Digit) /\ WordBoundary(t, i) /\ WordBoundary(t, i + 8)

\* re.findall: the non-overlapping matches from i on, left to right
RECURSIVE TaxIdFindAll(_, _)
TaxIdFindAll(t, i) ==
    IF i > Len(t) THEN <<>>
    ELSE IF TaxIdMatchAt(t, i)
         THEN <<SubSeq(t, i, i + 7)>> \o TaxIdFindAll(t, i + 8)
         ELSE TaxIdFindAll(t, i + 1)

InSeq(x, s) == \E k \in 1..Len(s) : s[k] = x

\* the loop of lines 291-294 without the checksum test
RECURSIVE ValidIdsUnchecked(_, _, _)
ValidIdsUnchecked(matches, k, valid_ids) ==
    IF k > Len(matches) THEN valid_ids
    ELSE IF ~InSeq(matches[k], valid_ids)
         THEN ValidIdsUnchecked(matches, k + 1, Append(valid_ids, matches[k]))
         ELSE ValidIdsUnchecked(matches, k + 1, valid_ids)

\* the loop of lines 291-294 without the test "not in valid_ids"
RECURSIVE ValidIdsRepeated(_, _, _)
ValidIdsRepeated(matches, k, valid_ids) ==
    IF k > Len(matches) THEN valid_ids
    ELSE IF _is_valid_taiwan_tax_id(matches[k])
         THEN ValidIdsRepeated(matches, k + 1, Append(valid_ids, matches[k]))
         ELSE ValidIdsRepeated(matches, k + 1, valid_ids)

\* the loop of lines 291-294 over matches[k..], valid_ids so far
RECURSIVE ValidIds(_, _, _)
ValidIds(matches, k, valid_ids) ==
    IF k > Len(matches) THEN valid_ids
    ELSE IF _is_valid_taiwan_tax_id(matches[k]) /\ ~InSeq(matches[k], valid_ids)
         THEN ValidIds(matches, k + 1, Append(valid_ids, matches[k]))
         ELSE ValidIds(matches, k + 1, valid_ids)

\* s[:2]
FirstTwo(s) == SubSeq(s, 1, IF Len(s) < 2 THEN Len(s) ELSE 2)

_extract_tax_ids(t) == FirstTwo(ValidIds(TaxIdFindAll(t, 1), 1, <<>>))

---------------------------------------------------------------------------
(* PATTERNS["date_tw"], PATTERNS["date_western"] and _extract_date.        *)

\* first position at or after i that holds no \s character
SkipSpace(t, i) == i + RunLen(t, i, Space)

\* (\d{2,3})\s*[年/]\s*(\d{1,2})\s*[月/]\s*(\d{1,2})\s*日? tried at i.
\* Each digit group is followed by a non-digit, so a group is the whole
\* digit run (backtracking to a shorter group always fails); the last
\* group is greedy and takes up to two digits.
DateTwAt(t, i) ==
    LET ny == Run(t, i, 3, Digit)
        s1 == SkipSpace(t, i + ny)
        m1 == SkipSpace(t, s1 + 1)
        nm == Run(t, m1, 2, Digit)
        s2 == SkipSpace(t, m1 + nm)
        d1 == SkipSpace(t, s2 + 1)
        nd == Run(t, d1, 2, Digit)
    IN  IF /\ ny >= 2
           /\ IsAt(t, s1, {c_nian, "/"})
           /\ nm >= 1
           /\ IsAt(t, s2, {c_yue, "/"})
           /\ nd >= 1
        THEN [ok |-> TRUE,
              year |-> SubSeq(t, i, i + ny - 1),
              month |-> SubSeq(t, m1, m1 + nm - 1),
              day |-> SubSeq(t, d1, d1 + nd - 1)]
        ELSE [ok |-> FALSE, year |-> <<>>, month |-> <<>>, day |-> <<>>]

\* (\d{4})[-/](\d{1,2})[-/](\d{1,2}) tried at i
DateWesternAt(t, i) ==
    LET nm == Run(t, i + 5, 2, Digit)
        nd == Run(t, i + 5 + nm + 1, 2, Digit)
    IN  IF /\ AllAt(t, i, 4, Digit)
           /\ IsAt(t, i + 4, {"-", "/"})
           /\ nm >= 1
           /\ IsAt(t, i + 5 + nm, {"-", "/"})
           /\ nd >= 1
        THEN [ok |-> TRUE,
              year |-> SubSeq(t, i, i + 3),
              month |-> SubSeq(t, i + 5, i + 4 + nm),
              day |-> SubSeq(t, i + 6 + nm, i + 5 + nm + nd)]
        ELSE [ok |-> FALSE, year |-> <<>>, month |-> <<>>, day |-> <<>>]

DateTwStarts(t) == {i \in 1..Len(t) : IsAt(t, i, Digit) /\ DateTwAt(t, i).ok}

DateWesternStarts(t) ==
    {i \in 1..Len(t) : IsAt(t, i, Digit) /\ DateWesternAt(t, i).ok}

\* _extract_date that takes only two-digit years for local-calendar years
extract_date_two_digit_offset(t) ==
    LET tw == DateTwStarts(t)
        western == DateWesternStarts(t)
    IN
    IF tw # {}
    THEN LET m == DateTwAt(t, Min(tw))
             y == ToInt(m.year)
             year == IF 1 <= y /\ y <= 99 THEN y + 1911 ELSE y
         IN  ToStr(year) \o <<"/">> \o Fmt02d(ToInt(m.month))
                 \o <<"/">> \o Fmt02d(ToInt(m.day))
    ELSE IF western # {}
    THEN LET m == DateWesternAt(t, Min(western))
         IN  m.year \o <<"/">> \o Fmt02d(ToInt(m.month))
                 \o <<"/">> \o Fmt02d(ToInt(m.day))
    ELSE <<>>

\* _extract_date that tries PATTERNS["date_western"] first
extract_date_western_first(t) ==
    LET tw == DateTwStarts(t)
        western == DateWesternStarts(t)
    IN
    IF western # {}
    THEN LET m == DateWesternAt(t, Min(western))
         IN  m.year \o <<"/">> \o Fmt02d(ToInt(m.month))
                 \o <<"/">> \o Fmt02d(ToInt(m.day))
    ELSE IF tw # {}
    THEN LET m == DateTwAt(t, Min(tw))
             y == ToInt(m.year)
             year == IF 1 <= y /\ y <= 150 THEN y + 1911 ELSE y
         IN  ToStr(year) \o <<"/">> \o Fmt02d(ToInt(m.month))
                 \o <<"/">> \o Fmt02d(ToInt(m.day))
    ELSE <<>>

_extract_date(t) ==
    LET tw == DateTwStarts(t)
        western == DateWesternStarts(t)
    IN
    IF tw # {}
    THEN LET m == DateTwAt(t, Min(tw))
             y == ToInt(m.year)
             year == IF 1 <= y /\ y <= 150 THEN y + 1911 ELSE y
         IN  ToStr(year) \o <<"/">> \o Fmt02d(ToInt(m.month))
                 \o <<"/">> \o Fmt02d(ToInt(m.day))
    ELSE IF western # {}
    THEN LET m == DateWesternAt(t, Min(western))
         IN  m.year \o <<"/">> \o Fmt02d(ToInt(m.month))
                 \o <<"/">> \o Fmt02d(ToInt(m.day))
    ELSE <<>>

---------------------------------------------------------------------------
(* _extract_company_names.                                                 *)

\* 股份有限公司|有限公司|公司|企業|行號|商行|工廠|事務所, in this order
NameSuffixes ==
    << <<c_gu, c_fen, c_you, c_xian, c_gong, c_si>>,
       <<c_you, c_xian, c_gong, c_si>>,
       <<c_gong, c_si>>,
       <<c_qi, c_ye>>,
       <<c_hang, c_hao>>,
       <<c_shang, c_hang>>,
       <<c_gong2, c_chang>>,
       <<c_shi, c_wu, c_suo>> >>

\* 賣方, 買方, 營業人: the labels of the second to fourth pattern
NameLabels ==
    << <<c_mai, c_fang>>, <<c_mai2, c_fang>>, <<c_ying2, c_ye, c_ren>> >>

\* length of the first alternative of ws that occurs in t at i, 0 if none
AltLenAt(t, i, ws) ==
    LET hits == {k \in 1..Len(ws) : LitAt(t, i, ws[k])}
    IN  IF hits = {} THEN 0 ELSE Len(ws[Min(hits)])

\* last position of the longest run of CJK characters that starts at i
CJKRunEnd(t, i) == i + RunLen(t, i, CJK) - 1

\* ([一-鿿]+(?:suffix)) tried at i: the end of the match, 0 if none.
\* The greedy [一-鿿]+ gives characters back until a suffix follows it.
SuffixNameEnd(t, i) ==
    LET e  == CJKRunEnd(t, i)
        ps == {p \in (i + 1)..e : AltLenAt(t, p, NameSuffixes) > 0}
    IN  IF ps = {} THEN 0
        ELSE Max(ps) + AltLenAt(t, Max(ps), NameSuffixes) - 1

RECURSIVE SuffixNameFindAll(_, _)
SuffixNameFindAll(t, i) ==
    IF i > Len(t) THEN <<>>
    ELSE LET e == SuffixNameEnd(t, i)
         IN  IF e > 0
             THEN <<SubSeq(t, i, e)>> \o SuffixNameFindAll(t, e + 1)
             ELSE SuffixNameFindAll(t, i + 1)

\* label[：:]\s*([一-鿿]+) tried at i: first position of the group, 0 if none
LabelNameStart(t, i, label) ==
    LET g == SkipSpace(t, i + Len(label) + 1)
    IN  IF /\ LitAt(t, i, label)
           /\ IsAt(t, i + Len(label), {c_fcolon, ":"})
           /\ IsAt(t, g, CJK)
        THEN g ELSE 0

RECURSIVE LabelNameFindAll(_, _, _)
LabelNameFindAll(t, i, label) ==
    IF i > Len(t) THEN <<>>
    ELSE LET g == LabelNameStart(t, i, label)
         IN  IF g > 0
             THEN <<SubSeq(t, g, CJKRunEnd(t, g))>>
                      \o LabelNameFindAll(t, CJKRunEnd(t, g) + 1, label)
             ELSE LabelNameFindAll(t, i + 1, label)

\* the inner loop of lines 312-314 without the test "not in names"
RECURSIVE add_names_repeated(_, _, _)
add_names_repeated(matches, k, names) ==
    IF k > Len(matches) THEN names
    ELSE IF Len(matches[k]) >= 2
         THEN add_names_repeated(matches, k + 1, Append(names, matches[k]))
         ELSE add_names_repeated(matches, k + 1, names)

\* the inner loop of lines 312-314 without the test of the length
RECURSIVE add_names_any_length(_, _, _)
add_names_any_length(matches, k, names) ==
    IF k > Len(matches) THEN names
    ELSE IF Len(matches[k]) > 0 /\ ~InSeq(matches[k], names)
         THEN add_names_any_length(matches, k + 1, Append(names, matches[k]))
         ELSE add_names_any_length(matches, k + 1, names)

\* the inner loop of lines 312-314 over matches[k..], names so far
RECURSIVE AddNames(_, _, _)
AddNames(matches, k, names) ==
    IF k > Len(matches) THEN names
    ELSE IF /\ Len(matches[k]) > 0
            /\ ~InSeq(matches[k], names)
            /\ Len(matches[k]) >= 2
         THEN AddNames(matches, k + 1, Append(names, matches[k]))
         ELSE AddNames(matches, k + 1, names)

_extract_company_names(t) ==
    LET n1 == AddNames(SuffixNameFindAll(t, 1), 1, <<>>)
        n2 == AddNames(LabelNameFindAll(t, 1, NameLabels[1]), 1, n1)
        n3 == AddNames(LabelNameFindAll(t, 1, NameLabels[2]), 1, n2)
        n4 == AddNames(LabelNameFindAll(t, 1, NameLabels[3]), 1, n3)
    IN  FirstTwo(n4)

---------------------------------------------------------------------------
(* Python floats: float(str), ==, >, * and - of IEEE 754 binary64.         *)
(*                                                                         *)
(* A natural number of any size is the sequence of its digits in base      *)
(* 2^15, lowest first, without leading zero digit: 0 is <<>>.  A float is  *)
(* a record [k, neg, m, e]: k = "fin" is the number (-1)^neg * m * 2^e     *)
(* with m an odd natural (0.0 and -0.0 have m = <<>>, e = 0), k = "inf"    *)
(* is the infinity of sign neg, k = "nan" is nan.  1050.0 is               *)
(* [k |-> "fin", neg |-> FALSE, m |-> <<525>>, e |-> 1].                   *)

Base == 32768

\* 2^n
RECURSIVE Pow2(_)
Pow2(n) == IF n = 0 THEN 1 ELSE 2 * Pow2(n - 1)

\* the digits a without leading zero digits
NatNorm(a) == SubSeq(a, 1, Max({0} \cup {i \in 1..Len(a) : a[i] # 0}))

\* the natural of an integer n >= 0
RECURSIVE NatOfInt(_)
NatOfInt(n) ==
    IF n = 0 THEN <<>> ELSE <<n % Base>> \o NatOfInt(n \div Base)

\* -1, 0, 1 as a < b, a = b, a > b
NatCmp(a, b) ==
    LET differ == {i \in 1..Len(a) : i <= Len(b) /\ a[i] # b[i]}
    IN  IF Len(a) > Len(b) THEN 1
        ELSE IF Len(a) < Len(b) THEN -1
        ELSE IF differ = {} THEN 0
        ELSE IF a[Max(differ)] > b[Max(differ)] THEN 1
        ELSE -1

\* digit i of a, 0 above its length
NatDigit(a, i) == IF i <= Len(a) THEN a[i] ELSE 0

\* a + b + c for a carry c of 0 or 1.  The carry into digit i comes from
\* a digit below whose sum overflows, or from c, through digits whose sum
\* is Base - 1.
NatAddC(a, b, c) ==
    LET sum(i) == NatDigit(a, i) + NatDigit(b, i)
        through(j, i) == \A k \in (j + 1)..(i - 1) : sum(k) = Base - 1
        carry(i) == IF \/ \E j \in 1..(i - 1) : sum(j) >= Base /\ through(j, i)
                       \/ c = 1 /\ through(0, i)
                    THEN 1 ELSE 0
    IN  NatNorm([i \in 1..(Max({Len(a), Len(b)}) + 1) |->
                   (sum(i) + carry(i)) % Base])

NatAdd(a, b) == NatAddC(a, b, 0)

\* a - b for a >= b.  Digit i borrows when a digit below is too small
\* and the digits between are equal.
NatSub(a, b) ==
    LET borrow(i) == IF \E j \in 1..(i - 1) :
                            /\ a[j] < NatDigit(b, j)
                            /\ \A k \in (j + 1)..(i - 1) : a[k] = NatDigit(b, k)
                     THEN 1 ELSE 0
    IN  NatNorm([i \in 1..Len(a) |->
                   (a[i] - NatDigit(b, i) - borrow(i) + Base) % Base])

\* a * c for 0 <= c < Base: the low halves of the products of the digits
\* plus their high halves one digit up
NatMulSmall(a, c) ==
    NatAdd([i \in 1..Len(a) |-> (a[i] * c) % Base],
           [i \in 1..(Len(a) + 1) |->
              IF i = 1 THEN 0 ELSE (a[i - 1] * c) \div Base])

\* a * Base^n
NatShiftDigits(a, n) ==
    IF a = <<>> THEN <<>> ELSE [i \in 1..n |-> 0] \o a

\* a * b, halving b
RECURSIVE NatMul(_, _)
NatMul(a, b) ==
    IF a = <<>> \/ b = <<>> THEN <<>>
    ELSE IF Len(b) = 1 THEN NatMulSmall(a, b[1])
    ELSE NatAdd(NatMul(a, NatNorm(SubSeq(b, 1, Len(b) \div 2))),
                NatShiftDigits(NatMul(a, SubSeq(b, (Len(b) \div 2) + 1,
                                                Len(b))),
                               Len(b) \div 2))

\* a * a
NatSquare(a) == NatMul(a, a)

\* 10^n, by squaring
RECURSIVE Pow10(_)
Pow10(n) ==
    IF n = 0 THEN <<1>>
    ELSE IF n = 1 THEN <<10>>
    ELSE NatMulSmall(NatSquare(Pow10(n \div 2)),
                     IF n % 2 = 0 THEN 1 ELSE 10)

\* a * 2^n
NatShl(a, n) == NatShiftDigits(NatMulSmall(a, Pow2(n % 15)), n \div 15)

\* a \div 2^n
NatShr(a, n) ==
    LET d == n \div 15
        p == Pow2(n % 15)
    IN  IF Len(a) <= d THEN <<>>
        ELSE NatNorm([i \in 1..(Len(a) - d) |->
                        (a[i + d] \div p)
                          + (IF i + d < Len(a)
                             THEN (a[i + d + 1] % p) * (Base \div p)
                             ELSE 0)])

\* bit i of a, bit 0 the lowest
NatBit(a, i) ==
    IF i \div 15 >= Len(a) THEN 0
    ELSE (a[(i \div 15) + 1] \div Pow2(i % 15)) % 2

\* the n lowest bits of a are 0
NatLowZero(a, n) ==
    /\ \A i \in 1..(n \div 15) : i > Len(a) \/ a[i] = 0
    /\ (n \div 15) < Len(a) => a[(n \div 15) + 1] % Pow2(n % 15) = 0

\* the number of bits of an integer 0 <= x < Base
RECURSIVE IntBits(_)
IntBits(x) == IF x = 0 THEN 0 ELSE 1 + IntBits(x \div 2)

\* the number of bits of a
NatBits(a) ==
    IF a = <<>> THEN 0 ELSE 15 * (Len(a) - 1) + IntBits(a[Len(a)])

\* the number of zero bits below the lowest 1 bit of an integer x > 0
RECURSIVE IntLowZeros(_)
IntLowZeros(x) == IF x % 2 = 1 THEN 0 ELSE 1 + IntLowZeros(x \div 2)

\* the number of zero bits below the lowest 1 bit of a # 0
NatLowZeros(a) ==
    LET i == Min({j \in 1..Len(a) : a[j] # 0})
    IN  15 * (i - 1) + IntLowZeros(a[i])

\* the largest g in lo..hi with g * d <= r, where lo * d <= r
RECURSIVE QuotientDigit(_, _, _, _)
QuotientDigit(r, d, lo, hi) ==
    IF lo = hi THEN lo
    ELSE LET g == (lo + hi + 1) \div 2
         IN  IF NatCmp(NatMulSmall(d, g), r) <= 0
             THEN QuotientDigit(r, d, g, hi)
             ELSE QuotientDigit(r, d, lo, g - 1)

\* long division of n by d # 0 over the digits i, i-1, .. 1 of n, with
\* the remainder r < d and the quotient q of the digits above: the
\* quotient and the remainder
RECURSIVE NatDivAt(_, _, _, _, _)

\* the digit g of the quotient is found: on with the digits below
NatDivDigit(n, d, i, x, g, q) ==
    NatDivAt(n, d, i - 1, NatSub(x, NatMulSmall(d, g)), <<g>> \o q)

\* x is the remainder of the digits above followed by digit i
NatDivStep(n, d, i, x, q) ==
    NatDivDigit(n, d, i, x, QuotientDigit(x, d, 0, Base - 1), q)

NatDivAt(n, d, i, r, q) ==
    IF i = 0 THEN [q |-> NatNorm(q), r |-> r]
    ELSE NatDivStep(n, d, i, NatNorm(<<n[i]>> \o r), q)

\* short division of n by an integer 0 < c < Base over the digits i,
\* i-1, .. 1 of n, with the remainder r < c and the quotient q of the
\* digits above
RECURSIVE NatDivSmallAt(_, _, _, _, _)
NatDivSmallAt(n, c, i, r, q) ==
    IF i = 0 THEN [q |-> NatNorm(q), r |-> NatOfInt(r)]
    ELSE NatDivSmallAt(n, c, i - 1, (r * Base + n[i]) % c,
                       <<(r * Base + n[i]) \div c>> \o q)

\* quotient and remainder of n by d # 0: short division by a d of one
\* digit; else long division, where the Len(d) - 1 highest digits of n
\* are below d and are the first remainder
NatDivMod(n, d) ==
    LET top == IF Len(n) < Len(d) - 1 THEN Len(n) ELSE Len(d) - 1
    IN  IF Len(d) = 1 THEN NatDivSmallAt(n, d[1], Len(n), 0, <<>>)
        ELSE NatDivAt(n, d, Len(n) - top,
                      SubSeq(n, Len(n) - top + 1, Len(n)), <<>>)

FZero(neg) == [k |-> "fin", neg |-> neg, m |-> <<>>, e |-> 0]

FInf(neg) == [k |-> "inf", neg |-> neg, m |-> <<>>, e |-> 0]

FNan == [k |-> "nan", neg |-> FALSE, m |-> <<>>, e |-> 0]

\* the float (-1)^neg * r * 2^e of a natural r # 0 that fits
FOdd(neg, r, e) ==
    [k |-> "fin", neg |-> neg, m |-> NatShr(r, NatLowZeros(r)),
     e |-> e + NatLowZeros(r)]

\* the float of the integer n
FInt(n) ==
    IF n = 0 THEN FZero(FALSE)
    ELSE FOdd(n < 0, NatOfInt(IF n < 0 THEN 0 - n ELSE n), 0)

\* the float (-1)^neg * r * 2^e of a natural r of at most 53 bits with
\* e >= -1074: infinity beyond the largest binary64
FFinite(neg, r, e) ==
    IF r = <<>> THEN FZero(neg)
    ELSE IF NatBits(r) + e > 1024 THEN FInf(neg)
    ELSE FOdd(neg, r, e)

\* q * 2^e rounded up by one unit if the part cut off was above one half
\* (half and rest), or was one half (half, no rest) and q is odd
FRoundUp(neg, q, e, half, rest) ==
    FFinite(neg,
            IF half /\ (rest \/ NatBit(q, 0) = 1) THEN NatAddC(q, <<>>, 1)
            ELSE q,
            e)

\* the number of low bits of a natural of that many bits, in units of
\* 2^e, that binary64 does not hold: 53 bits are kept, and none below
\* 2^-1074
FCut(bits, e) ==
    LET low == IF e + bits - 53 > -1074 THEN e + bits - 53 ELSE -1074
    IN  IF low > e THEN low - e ELSE 0

\* FRound with cut low bits of n given up
FRoundAt(neg, n, e, sticky, cut) ==
    FRoundUp(neg, NatShr(n, cut), e + cut,
             cut > 0 /\ NatBit(n, cut - 1) = 1,
             sticky \/ (cut > 1 /\ ~NatLowZero(n, cut - 1)))

\* the binary64 nearest to (-1)^neg * x, ties to even, for a real x with
\* n * 2^e <= x < (n + 1) * 2^e, and x = n * 2^e if not sticky; a sticky
\* n has at least 55 bits
FRound(neg, n, e, sticky) ==
    IF n = <<>> THEN FZero(neg)
    ELSE FRoundAt(neg, n, e, sticky, FCut(NatBits(n), e))

\* FRound of the quotient qr.q and the remainder qr.r of m * 2^s by d
FRoundQuotient(neg, qr, s) == FRound(neg, qr.q, 0 - s, qr.r # <<>>)

\* the binary64 nearest to (-1)^neg * m / d, the quotient taken of
\* m * 2^s
FDivideAt(neg, m, d, s) ==
    FRoundQuotient(neg, NatDivMod(NatShl(m, s), d), s)

\* the binary64 nearest to (-1)^neg * m / d: a quotient of 56 bits or
\* more
FDivide(neg, m, d) ==
    FDivideAt(neg, m, d,
              IF 56 + NatBits(d) - NatBits(m) > 0
              THEN 56 + NatBits(d) - NatBits(m) ELSE 0)

\* the binary64 nearest to (-1)^neg * m * 10^x
FDecimal(neg, m, x) ==
    IF m = <<>> THEN FZero(neg)
    ELSE IF x >= 0 THEN FRound(neg, NatMul(m, Pow10(x)), 0, FALSE)
    ELSE FDivide(neg, m, Pow10(0 - x))

\* a == 0
FIsZero(a) == a.k = "fin" /\ a.m = <<>>

\* a > 0
FPositive(a) == a.k # "nan" /\ ~a.neg /\ ~FIsZero(a)

\* a * b
FMul(a, b) ==
    LET neg == a.neg # b.neg
    IN  IF a.k = "nan" \/ b.k = "nan" THEN FNan
        ELSE IF a.k = "inf" \/ b.k = "inf"
        THEN (IF FIsZero(a) \/ FIsZero(b) THEN FNan ELSE FInf(neg))
        ELSE FRound(neg, NatMul(a.m, b.m), a.e + b.e, FALSE)

\* the sum of (-1)^an * x * 2^e and (-1)^bn * y * 2^e; an exact zero of
\* opposite signs is 0.0
FAddAligned(an, x, bn, y, e) ==
    IF an # bn /\ NatCmp(x, y) = 0 THEN FZero(FALSE)
    ELSE FRound(IF an = bn \/ NatCmp(x, y) > 0 THEN an ELSE bn,
                IF an = bn THEN NatAdd(x, y)
                ELSE IF NatCmp(x, y) > 0 THEN NatSub(x, y)
                ELSE NatSub(y, x),
                e, FALSE)

\* a + b of finite a and b
FAddFinite(a, b) ==
    LET e == IF a.e < b.e THEN a.e ELSE b.e
    IN  FAddAligned(a.neg, NatShl(a.m, a.e - e), b.neg,
                    NatShl(b.m, b.e - e), e)

\* a - b
FSub(a, b) ==
    LET nb == [b EXCEPT !.neg = ~b.neg]
    IN  IF a.k = "nan" \/ b.k = "nan" THEN FNan
        ELSE IF a.k = "inf" /\ b.k = "inf"
        THEN (IF a.neg = nb.neg THEN a ELSE FNan)
        ELSE IF a.k = "inf" THEN a
        ELSE IF b.k = "inf" THEN nb
        ELSE FAddFinite(a, nb)

\* s without the characters of C at its two ends
StripOf(s, C) ==
    LET keep == {i \in 1..Len(s) : s[i] \notin C}
    IN  IF keep = {} THEN <<>> ELSE SubSeq(s, Min(keep), Max(keep))

\* str.strip()
Strip(s) == StripOf(s, Space)

\* the natural of a run of decimal digits, halving the run
RECURSIVE NatOfDigits(_)
NatOfDigits(s) ==
    IF Len(s) <= 4 THEN NatOfInt(ToInt(s))
    ELSE NatAdd(NatMul(NatOfDigits(SubSeq(s, 1, Len(s) - (Len(s) \div 2))),
                       Pow10(Len(s) \div 2)),
                NatOfDigits(SubSeq(s, Len(s) - (Len(s) \div 2) + 1, Len(s))))

\* s without its leading "0" digits
NoLeadingZeros(s) ==
    LET nz == {i \in 1..Len(s) : DigitVal(s[i]) # 0}
    IN  IF nz = {} THEN <<>> ELSE SubSeq(s, Min(nz), Len(s))

\* s without its trailing "0" digits
NoTrailingZeros(s) ==
    LET nz == {i \in 1..Len(s) : DigitVal(s[i]) # 0}
    IN  IF nz = {} THEN <<>> ELSE SubSeq(s, 1, Max(nz))

\* int(s) of the digits of an exponent, as float() reads it: in full up
\* to 1100000000, and 1100000000 where it is more or has more than nine
\* digits behind its leading zeros
IntCapped(s) ==
    IF Len(NoLeadingZeros(s)) > 9 THEN 1100000000
    ELSE IF ToInt(NoLeadingZeros(s)) > 1100000000 THEN 1100000000
    ELSE ToInt(NoLeadingZeros(s))

\* what float() gives: ok is FALSE where it raises ValueError
NoFloat == [ok |-> FALSE, val |-> FZero(FALSE)]

AFloat(val) == [ok |-> TRUE, val |-> val]

\* the float of the digits ds, the first not "0", times 10^x
FloatOfDigits(neg, ds, x) ==
    IF ds = <<>> THEN FZero(neg)
    ELSE IF x + Len(ds) > 310 THEN FInf(neg)
    ELSE IF x + Len(ds) < -330 THEN FZero(neg)
    ELSE FDecimal(neg, NatOfDigits(ds), x)

\* the float of the digits ip, a point, the digits fp, the last not "0",
\* times 10^x
FloatOfParts(neg, ip, fp, x) ==
    FloatOfDigits(neg, NoLeadingZeros(ip \o fp), x - Len(fp))

\* the digits of the mantissa mant in front of its point
IntDigits(mant, dots) ==
    IF dots = {} THEN mant ELSE SubSeq(mant, 1, Min(dots) - 1)

\* the digits of the mantissa mant behind its point
FracDigits(mant, dots) ==
    IF dots = {} THEN <<>> ELSE SubSeq(mant, Min(dots) + 1, Len(mant))

\* float() takes no more than 1000000000 digits behind the leading zeros
\* of the mantissa and no more than 1000000000 digits behind the point
DigitsInRange(ip, fp) ==
    Len(NoLeadingZeros(ip \o fp)) <= 1000000000 /\ Len(fp) <= 1000000000

\* the float of the mantissa mant and, if has_e, the exponent ex behind
\* the letter e: digits with an optional point, one digit at least, and
\* an optional sign and digits
FloatOfNumber(neg, mant, has_e, ex) ==
    LET dots == {i \in 1..Len(mant) : mant[i] = "."}
        ed == IF IsAt(ex, 1, {"-", "+"}) THEN Tail(ex) ELSE ex
    IN  IF /\ Cardinality(dots) <= 1
           /\ AllAt(mant, 1, Len(mant), Digit \cup {"."})
           /\ Len(mant) - Cardinality(dots) >= 1
           /\ has_e => Len(ed) >= 1 /\ AllAt(ed, 1, Len(ed), Digit)
           /\ DigitsInRange(IntDigits(mant, dots), FracDigits(mant, dots))
        THEN AFloat(FloatOfParts(
                 neg,
                 IntDigits(mant, dots),
                 NoTrailingZeros(FracDigits(mant, dots)),
                 IF IsAt(ex, 1, {"-"}) THEN 0 - IntCapped(ed)
                 ELSE IntCapped(ed)))
        ELSE NoFloat

\* the float of the text b behind the sign: inf, infinity or nan in any
\* case, or a number
FloatOfBody(neg, b) ==
    LET word == [i \in 1..Len(b) |-> LowerOf(b[i])]
        es == {i \in 1..Len(b) : b[i] \in {"e", "E"}}
    IN  IF word \in {<<"i", "n", "f">>,
                     <<"i", "n", "f", "i", "n", "i", "t", "y">>}
        THEN AFloat(FInf(neg))
        ELSE IF word = <<"n", "a", "n">> THEN AFloat(FNan)
        ELSE FloatOfNumber(neg,
                           IF es = {} THEN b ELSE SubSeq(b, 1, Min(es) - 1),
                           es # {},
                           IF es = {} THEN <<>>
                           ELSE SubSeq(b, Min(es) + 1, Len(b)))

\* the float of the text u without white space around: an underscore
\* stands between two digits only, a sign may come first
FloatOfText(u) ==
    IF \E i \in 1..Len(u) :
           u[i] = "_" /\ ~(IsAt(u, i - 1, Digit) /\ IsAt(u, i + 1, Digit))
    THEN NoFloat
    ELSE FloatOfBody(IsAt(u, 1, {"-"}),
                     Remove(IF IsAt(u, 1, {"-", "+"}) THEN Tail(u) ELSE u,
                            "_"))

\* float(s): ok is FALSE where float raises ValueError, val the float.
\* White space around is dropped; an underscore stands between two digits
\* only; then an optional sign and inf, infinity or nan in any case, or
\* digits with an optional point and an optional exponent.
FloatOf(s) == FloatOfText(StripOf(s, FloatSpace))

\* the float if there is one, old if float raised ValueError
ParsedOr(f, old) == IF f.ok THEN f.val ELSE old

\* float(s) of a literal s
Flt(s) == FloatOf(s).val

---------------------------------------------------------------------------
(* _parse_amount and _extract_amounts.                                     *)

\* 合計|總計|總額|應付|Total
TotalKeywords ==
    << <<c_he, c_ji>>, <<c_zong, c_ji>>, <<c_zong, c_e>>, <<c_ying, c_fu>>,
       <<"T", "o", "t", "a", "l">> >>

\* 營業稅|稅額|稅金|Tax
TaxKeywords ==
    << <<c_ying2, c_ye, c_shui>>, <<c_shui, c_e>>, <<c_shui, c_jin>>,
       <<"T", "a", "x">> >>

\* 小計|未稅|銷售額|Subtotal
SubtotalKeywords ==
    << <<c_xiao, c_ji>>, <<c_wei, c_shui>>, <<c_xiao2, c_shou, c_e>>,
       <<"S", "u", "b", "t", "o", "t", "a", "l">> >>

\* length of the first alternative of ws at i ignoring case, 0 if none
AltLenAtI(t, i, ws) ==
    LET hits == {k \in 1..Len(ws) : LitAtI(t, i, ws[k])}
    IN  IF hits = {} THEN 0 ELSE Len(ws[Min(hits)])

DigitOrComma == Digit \cup {","}

\* [^\d]*([\d,]+(?:\.\d{2})?) tried at e: the group, <<>> if no match.
\* The greedy [^\d]* stops before the first digit; without a digit it
\* gives characters back down to the last comma.
AmountGroupAt(t, e) ==
    LET ds == {j \in e..Len(t) : t[j] \in Digit}
        cs == {j \in e..Len(t) : t[j] = ","}
    IN  IF e < 1 THEN <<>>
        ELSE IF ds # {}
        THEN LET b == Min(ds)
                 n == RunLen(t, b, DigitOrComma)
                 f == IF IsAt(t, b + n, {"."}) /\ AllAt(t, b + n + 1, 2, Digit)
                      THEN 3 ELSE 0
             IN  SubSeq(t, b, b + n + f - 1)
        ELSE IF cs # {} THEN <<",">>
        ELSE <<>>

\* re.search(keywords + group, text, re.IGNORECASE): the group of the
\* leftmost match, <<>> if the pattern does not match
AmountSearch(t, kws) ==
    LET starts == {i \in 1..Len(t) :
                     /\ AltLenAtI(t, i, kws) > 0
                     /\ AmountGroupAt(t, i + AltLenAtI(t, i, kws)) # <<>>}
    IN  IF starts = {} THEN <<>>
        ELSE AmountGroupAt(t, Min(starts) + AltLenAtI(t, Min(starts), kws))

\* float(clean_str); ValueError (the empty string) gives 0.0
_parse_amount(amount_str) ==
    LET clean_str == Remove(Remove(amount_str, ","), " ")
    IN  ParsedOr(FloatOf(clean_str), FZero(FALSE))

\* lines 321-338: the groups of the three searches, <<>> without match
AmountMatches(t) ==
    [total |-> AmountSearch(t, TotalKeywords),
     tax |-> AmountSearch(t, TaxKeywords),
     subtotal |-> AmountSearch(t, SubtotalKeywords)]

\* lines 321-338: the dict amounts after the three searches; has_x says
\* whether key x is present
ParsedAmounts(matches) ==
    [has_total |-> matches.total # <<>>,
     total |-> IF matches.total # <<>> THEN _parse_amount(matches.total)
               ELSE FZero(FALSE),
     has_tax |-> matches.tax # <<>>,
     tax |-> IF matches.tax # <<>> THEN _parse_amount(matches.tax)
             ELSE FZero(FALSE),
     has_subtotal |-> matches.subtotal # <<>>,
     subtotal |-> IF matches.subtotal # <<>>
                  THEN _parse_amount(matches.subtotal)
                  ELSE FZero(FALSE)]

\* lines 341-342 without the test for a subtotal that is already there
derive_subtotal_always(amounts) ==
    IF amounts.has_total /\ amounts.has_tax
    THEN [amounts EXCEPT !.has_subtotal = TRUE,
                         !.subtotal = FSub(amounts.total, amounts.tax)]
    ELSE amounts

\* lines 341-342: the subtotal derived if there is none
derive_subtotal(amounts) ==
    IF ~amounts.has_subtotal /\ amounts.has_total /\ amounts.has_tax
    THEN [amounts EXCEPT !.has_subtotal = TRUE,
                         !.subtotal = FSub(amounts.total, amounts.tax)]
    ELSE amounts

\* _extract_amounts whose lines 341-342 run without the test for a
\* subtotal that is already there
extract_amounts_always_derived(t) ==
    derive_subtotal_always(ParsedAmounts(AmountMatches(t)))

\* The dict amounts: has_x says whether key x is present.
_extract_amounts(t) == derive_subtotal(ParsedAmounts(AmountMatches(t)))

---------------------------------------------------------------------------
(* InvoiceItem, _find_column and _extract_items_from_tables.               *)

\* InvoiceItem(name, quantity, unit_price, amount) with __post_init__
InvoiceItem(name, quantity, unit_price, amount) ==
    [name |-> name, quantity |-> quantity, unit_price |-> unit_price,
     amount |-> IF FIsZero(amount) /\ FPositive(unit_price)
                THEN FMul(quantity, unit_price)
                ELSE amount]

\* 品名, 品項, 項目, 商品, 名稱
NameKeywords ==
    << <<c_pin, c_ming>>, <<c_pin, c_xiang>>, <<c_xiang, c_mu>>,
       <<c_shang, c_pin>>, <<c_ming, c_cheng>> >>

\* 數量, 數, Qty
QtyKeywords == << <<c_shu, c_liang>>, <<c_shu>>, <<"Q", "t", "y">> >>

\* 單價, 價格, Price
PriceKeywords ==
    << <<c_dan, c_jia>>, <<c_jia, c_ge>>, <<"P", "r", "i", "c", "e">> >>

\* 金額, 小計, Amount
AmountKeywords ==
    << <<c_jin, c_e>>, <<c_xiao, c_ji>>, <<"A", "m", "o", "u", "n", "t">> >>

\* keyword in s, for some keyword of kws
ContainsAny(s, kws) ==
    \E k \in 1..Len(kws) : \E i \in 1..Len(s) : LitAt(s, i, kws[k])

\* _find_column that keeps the last matching header
find_column_last(headers, keywords) ==
    LET hits == {i \in 1..Len(headers) : ContainsAny(headers[i], keywords)}
    IN  IF hits = {} THEN 0 ELSE Max(hits)

\* _find_column: the index found, 0 for None
_find_column(headers, keywords) ==
    LET hits == {i \in 1..Len(headers) : ContainsAny(headers[i], keywords)}
    IN  IF hits = {} THEN 0 ELSE Min(hits)

\* the guarded parse that sets the field to 0.0 on ValueError
cell_field_zero_on_failure(row, col, old) ==
    IF col # 0 /\ Len(row) >= col /\ Len(row[col]) > 0
    THEN ParsedOr(FloatOf(Remove(row[col], ",")), FZero(FALSE))
    ELSE old

\* lines 395-400 (402-407, 409-414): the field after the guarded parse of
\* the cell at column col; old is the value the item had
CellField(row, col, old) ==
    IF col # 0 /\ Len(row) >= col /\ Len(row[col]) > 0
    THEN ParsedOr(FloatOf(Remove(row[col], ",")), old)
    ELSE old

\* lines 365-371 looking at the first row only
header_row_first_only(table) ==
    IF /\ Len(table) >= 1
       /\ \E j \in 1..Len(table[1]) :
              /\ Len(table[1][j]) > 0
              /\ ContainsAny(table[1][j], NameKeywords)
    THEN 1 ELSE 0

\* lines 365-371: index of the header row, 0 for None
HeaderRow(table) ==
    LET hits == {i \in 1..Len(table) :
                   \E j \in 1..Len(table[i]) :
                       /\ Len(table[i][j]) > 0
                       /\ ContainsAny(table[i][j], NameKeywords)}
    IN  IF hits = {} THEN 0 ELSE Min(hits)

\* lines 385-416: the items of the rows table[k..]
RECURSIVE RowItems(_, _, _, _, _, _)
RowItems(table, k, name_col, qty_col, price_col, amount_col) ==
    IF k > Len(table) THEN <<>>
    ELSE LET row == table[k]
             rest == RowItems(table, k + 1, name_col, qty_col, price_col,
                              amount_col)
             name == IF Len(row) >= name_col THEN Strip(row[name_col])
                     ELSE <<>>
             item == InvoiceItem(name, FInt(1), FZero(FALSE), FZero(FALSE))
         IN  IF Len(row) = 0 \/ Len(row) < name_col \/ Len(name) = 0
             THEN rest
             ELSE << [name |-> item.name,
                      quantity |-> CellField(row, qty_col, item.quantity),
                      unit_price |-> CellField(row, price_col, item.unit_price),
                      amount |-> CellField(row, amount_col, item.amount)] >>
                  \o rest

\* lines 360-416 reading a table without header row as rows of names
table_items_rows_without_header(table) ==
    IF Len(table) < 2 THEN <<>>
    ELSE IF HeaderRow(table) = 0 THEN RowItems(table, 1, 1, 0, 0, 0)
    ELSE LET headers == [j \in 1..Len(table[HeaderRow(table)]) |->
                            Strip(table[HeaderRow(table)][j])]
         IN  RowItems(table, HeaderRow(table) + 1,
                      _find_column(headers, NameKeywords),
                      _find_column(headers, QtyKeywords),
                      _find_column(headers, PriceKeywords),
                      _find_column(headers, AmountKeywords))

\* lines 360-416: the items one table contributes
TableItems(table) ==
    IF Len(table) < 2 \/ HeaderRow(table) = 0 THEN <<>>
    ELSE LET headers == [j \in 1..Len(table[HeaderRow(table)]) |->
                            Strip(table[HeaderRow(table)][j])]
         IN  RowItems(table, HeaderRow(table) + 1,
                      _find_column(headers, NameKeywords),
                      _find_column(headers, QtyKeywords),
                      _find_column(headers, PriceKeywords),
                      _find_column(headers, AmountKeywords))

\* items.append only for an item that is not in items yet
RECURSIVE AppendNew(_, _, _)
AppendNew(items, more, k) ==
    IF k > Len(more) THEN items
    ELSE AppendNew(IF InSeq(more[k], items) THEN items
                   ELSE Append(items, more[k]), more, k + 1)

RECURSIVE ItemsFromDeduplicated(_, _, _)
ItemsFromDeduplicated(tbls, k, items) ==
    IF k > Len(tbls) THEN items
    ELSE ItemsFromDeduplicated(tbls, k + 1,
                               AppendNew(items, TableItems(tbls[k]), 1))

items_from_deduplicated(tbls, k) == ItemsFromDeduplicated(tbls, k, <<>>)

RECURSIVE ItemsFrom(_, _)
ItemsFrom(tbls, k) ==
    IF k > Len(tbls) THEN <<>>
    ELSE TableItems(tbls[k]) \o ItemsFrom(tbls, k + 1)

_extract_items_from_tables(tbls) == ItemsFrom(tbls, 1)

---------------------------------------------------------------------------
(* InvoiceData and _extract_invoice_data.                                  *)

\* InvoiceData(): the defaults of lines 29-54
InvoiceData ==
    [invoice_number |-> <<>>, invoice_date |-> <<>>, invoice_type |-> <<>>,
     seller_id |-> <<>>, seller_name |-> <<>>, seller_address |-> <<>>,
     buyer_id |-> <<>>, buyer_name |-> <<>>, buyer_address |-> <<>>,
     subtotal |-> FZero(FALSE), tax_rate |-> Flt(<<"0", ".", "0", "5">>),
     tax_amount |-> FZero(FALSE), total_amount |-> FZero(FALSE),
     items |-> <<>>, raw_text |-> <<>>,
     confidence |-> [num |-> 0, den |-> 1]]

B2N(b) == IF b THEN 1 ELSE 0

\* expected_fields without the conditional entry of line 210
expected_fields_no_items(has_tables) ==
    <<"invoice_number", "invoice_date", "seller_id", "buyer_id",
      "seller_name", "buyer_name", "total_amount">>

\* expected_fields at line 213; has_tables is "if pdf_content.tables"
expected_fields(has_tables) ==
    <<"invoice_number", "invoice_date", "seller_id", "buyer_id",
      "seller_name", "buyer_name", "total_amount">>
        \o (IF has_tables THEN <<"items">> ELSE <<>>)

\* lines 197-202 without the test of line 201
TotalMatchedAnyAmount(amounts) ==
    IF amounts.has_total \/ amounts.has_tax \/ amounts.has_subtotal
    THEN 1 ELSE 0

\* lines 197-202 counting the total only when no tax amount was found
TotalMatchedWithoutTax(amounts) ==
    IF amounts.has_total \/ amounts.has_tax \/ amounts.has_subtotal
    THEN (IF FPositive(amounts.total) /\ ~amounts.has_tax THEN 1 ELSE 0)
    ELSE 0

\* lines 197-202: what the total adds to matched_fields
TotalMatched(amounts) ==
    IF amounts.has_total \/ amounts.has_tax \/ amounts.has_subtotal
    THEN (IF FPositive(amounts.total) THEN 1 ELSE 0)
    ELSE 0

\* lines 165-214: the record built from what the extractors returned
fill_invoice(invoice_number, invoice_date, tax_ids, names, amounts, has_tables, items) ==
    LET nonempty == amounts.has_total \/ amounts.has_tax \/ amounts.has_subtotal
        matched_fields ==
            B2N(Len(invoice_number) > 0) + B2N(Len(invoice_date) > 0)
              + B2N(Len(tax_ids) >= 1) + B2N(Len(tax_ids) >= 2)
              + B2N(Len(names) >= 1) + B2N(Len(names) >= 2)
              + TotalMatched(amounts)
              + B2N(has_tables /\ Len(items) > 0)
        total_fields == Len(expected_fields(has_tables))
    IN  [InvoiceData EXCEPT
           !.invoice_number = invoice_number,
           !.invoice_date = invoice_date,
           !.seller_id = IF Len(tax_ids) >= 1 THEN tax_ids[1] ELSE <<>>,
           !.buyer_id = IF Len(tax_ids) >= 2 THEN tax_ids[2] ELSE <<>>,
           !.seller_name = IF Len(names) >= 1 THEN names[1] ELSE <<>>,
           !.buyer_name = IF Len(names) >= 2 THEN names[2] ELSE <<>>,
           !.total_amount = IF nonempty THEN amounts.total ELSE FZero(FALSE),
           !.tax_amount = IF nonempty THEN amounts.tax ELSE FZero(FALSE),
           !.subtotal = IF nonempty THEN amounts.subtotal ELSE FZero(FALSE),
           !.items = items,
           !.confidence = IF total_fields > 0
                          THEN [num |-> matched_fields, den |-> total_fields]
                          ELSE [num |-> 0, den |-> 1]]

_extract_invoice_data(raw_text, tbls) ==
    fill_invoice(_extract_invoice_number(raw_text),
                 _extract_date(raw_text),
                 _extract_tax_ids(raw_text),
                 _extract_company_names(raw_text),
                 _extract_amounts(raw_text),
                 Len(tbls) > 0,
                 IF Len(tbls) > 0 THEN _extract_items_from_tables(tbls)
                 ELSE <<>>)

\* int(s) raises ValueError: s holds a character that is no decimal digit
IntValueError(s) == \E i \in 1..Len(s) : s[i] \notin Digit

\* lines 233-238 and 244-245: int() of the groups of the date that is
\* returned raises ValueError
DateValueError(t) ==
    LET tw == DateTwStarts(t)
        western == DateWesternStarts(t)
    IN  IF tw # {}
        THEN LET m == DateTwAt(t, Min(tw))
             IN  IntValueError(m.year) \/ IntValueError(m.month)
                   \/ IntValueError(m.day)
        ELSE IF western # {}
        THEN LET m == DateWesternAt(t, Min(western))
             IN  IntValueError(m.month) \/ IntValueError(m.day)
        ELSE FALSE

\* line 292: the validator raises ValueError on one of the matches
TaxIdsValueError(t) ==
    \E k \in 1..Len(TaxIdFindAll(t, 1)) :
        TaxIdValueError(TaxIdFindAll(t, 1)[k])

\* line 386: len(row) <= name_col raises TypeError where name_col is None
\* and the table has a row with cells behind its header row
TableTypeError(table) ==
    /\ Len(table) >= 2
    /\ HeaderRow(table) # 0
    /\ _find_column([j \in 1..Len(table[HeaderRow(table)]) |->
                        Strip(table[HeaderRow(table)][j])], NameKeywords) = 0
    /\ \E k \in (HeaderRow(table) + 1)..Len(table) : Len(table[k]) > 0

\* how _extract_invoice_data ends: "returns", or the exception that
\* leaves it, the first one in the order of lines 159-207
extract_invoice_data_ends(raw_text, tbls) ==
    IF DateValueError(raw_text) THEN "ValueError"
    ELSE IF TaxIdsValueError(raw_text) THEN "ValueError"
    ELSE IF \E g \in 1..Len(tbls) : TableTypeError(tbls[g]) THEN "TypeError"
    ELSE "returns"

---------------------------------------------------------------------------
(* The operations.                                                         *)

\* extract_from_text(text): builds a PDFContent with the text and no
\* tables, so it serves the documents that have none
ExtractFromText ==
    /\ pc = "input"
    /\ tables = <<>>
    /\ IF extract_invoice_data_ends(text, <<>>) = "returns"
       THEN /\ invoice' = _extract_invoice_data(text, <<>>)
            /\ pc' = "from_text"
            /\ verdict' = verdict
       ELSE /\ invoice' = invoice
            /\ pc' = "raised"
            /\ verdict' = extract_invoice_data_ends(text, <<>>)
    /\ UNCHANGED <<text, tables, file_path, workers>>

\* lines 66-69: the decoder (pdfplumber, or PyPDF2 without it) is handed
\* the path.  It is a library outside the repository, and what it does
\* with what is at the path is given with the path: it returns the
\* content of a PDF document, and it raises an exception of its own
\* ("DecoderError", whatever its class) on a directory and on a file
\* that it cannot read as PDF.
decode(path) ==
    IF path.kind = "document" THEN "PDFContent" ELSE "DecoderError"

\* Path.exists() at line 59: "True" or "False", or the exception that
\* leaves it.  It answers "False" where stat() finds nothing at the path
\* (ENOENT, ENOTDIR, EBADF, ELOOP) and lets every other OSError of
\* stat() through: OSError itself for ENAMETOOLONG, PermissionError for
\* EACCES.
exists(path) ==
    IF path.stat # "answers" THEN path.stat
    ELSE IF path.kind = "missing" THEN "False"
    ELSE "True"

\* parse with the two tests of lines 59-63 in the other order
parse_suffix_first(path) ==
    IF [i \in 1..Len(path.suffix) |-> LowerOf(path.suffix[i])]
         # <<".", "p", "d", "f">>
    THEN "ValueError"
    ELSE IF exists(path) \notin {"True", "False"} THEN exists(path)
    ELSE IF exists(path) = "False" THEN "FileNotFoundError"
    ELSE decode(path)

\* PDFParser.parse(file_path), lines 57-69: the exception it ends with,
\* or "PDFContent".  No line of it catches what Path.exists() or the
\* decoder raises.
parse(path) ==
    IF exists(path) \notin {"True", "False"} THEN exists(path)
    ELSE IF exists(path) = "False" THEN "FileNotFoundError"
    ELSE IF [i \in 1..Len(path.suffix) |-> LowerOf(path.suffix[i])]
              # <<".", "p", "d", "f">>
    THEN "ValueError"
    ELSE decode(path)

\* extract_from_pdf(file_path) for a file that pdf_parser.parse decodes
\* to the PDFContent (text, tables)
ExtractFromPdf ==
    /\ pc = "input"
    /\ parse(file_path) = "PDFContent"
    /\ IF extract_invoice_data_ends(text, tables) = "returns"
       THEN /\ invoice' = [_extract_invoice_data(text, tables)
                             EXCEPT !.raw_text = text]
            /\ pc' = "from_pdf"
            /\ verdict' = verdict
       ELSE /\ invoice' = invoice
            /\ pc' = "raised"
            /\ verdict' = extract_invoice_data_ends(text, tables)
    /\ UNCHANGED <<text, tables, file_path, workers>>

\* extract_from_pdf(file_path) when pdf_parser.parse raises at line 125:
\* the exception leaves extract_from_pdf, no record is built
ExtractFromPdfRaises ==
    /\ pc = "input"
    /\ parse(file_path) # "PDFContent"
    /\ verdict' = parse(file_path)
    /\ pc' = "raised"
    /\ UNCHANGED <<text, tables, invoice, file_path, workers>>

\* InvoiceData.to_dict(), lines 56-88
to_dict(r) ==
    [invoice_number |-> r.invoice_number,
     invoice_date |-> r.invoice_date,
     invoice_type |-> r.invoice_type,
     seller |-> [id |-> r.seller_id, name |-> r.seller_name,
                 address |-> r.seller_address],
     buyer |-> [id |-> r.buyer_id, name |-> r.buyer_name,
                address |-> r.buyer_address],
     amounts |-> [subtotal |-> r.subtotal, tax_rate |-> r.tax_rate,
                  tax_amount |-> r.tax_amount, total |-> r.total_amount],
     items |-> [k \in 1..Len(r.items) |->
                  [name |-> r.items[k].name,
                   quantity |-> r.items[k].quantity,
                   unit_price |-> r.items[k].unit_price,
                   amount |-> r.items[k].amount]],
     confidence |-> r.confidence]

\* main.py, run_automation, lines 91-111: the InvoiceData built from the
\* dictionary, one InvoiceItem constructed per serialized item
run_automation(invoice_dict) ==
    [InvoiceData EXCEPT
       !.invoice_number = invoice_dict.invoice_number,
       !.invoice_date = invoice_dict.invoice_date,
       !.seller_id = invoice_dict.seller.id,
       !.seller_name = invoice_dict.seller.name,
       !.buyer_id = invoice_dict.buyer.id,
       !.buyer_name = invoice_dict.buyer.name,
       !.subtotal = invoice_dict.amounts.subtotal,
       !.tax_amount = invoice_dict.amounts.tax_amount,
       !.total_amount = invoice_dict.amounts.total,
       !.items = [k \in 1..Len(invoice_dict.items) |->
                    InvoiceItem(invoice_dict.items[k].name,
                                invoice_dict.items[k].quantity,
                                invoice_dict.items[k].unit_price,
                                invoice_dict.items[k].amount)]]

\* main.py: parse_invoice has returned extract_from_pdf(...).to_dict()
\* and run_automation rebuilds the record from it
RunAutomation ==
    /\ pc = "from_pdf"
    /\ invoice' = run_automation(to_dict(invoice))
    /\ pc' = "automation"
    /\ UNCHANGED <<text, tables, verdict, file_path, workers>>

\* _is_valid_taiwan_tax_id(text)
Validate ==
    /\ pc = "input"
    /\ verdict' = IF TaxIdValueError(text) THEN "ValueError"
                  ELSE IF _is_valid_taiwan_tax_id(text) THEN "valid"
                  ELSE "invalid"
    /\ pc' = "validated"
    /\ UNCHANGED <<text, tables, invoice, file_path, workers>>

---------------------------------------------------------------------------
(* extract_from_pdf and _extract_invoice_data statement by statement, run  *)
(* by worker w on the documents of its queue.  A worker's record holds     *)
(* the document at hand (text, tables), the local variables invoice,       *)
(* matched_fields and expected_fields, the line it is at (pc; "idle"       *)
(* between calls) and the records its calls returned (done).               *)

\* what a worker holds before its first call
IdleWorker(queue) ==
    [pc |-> "idle", queue |-> queue, text |-> <<>>, tables |-> <<>>,
     invoice |-> InvoiceData, matched_fields |-> 0, expected_fields |-> <<>>,
     done |-> <<>>]

\* lines 125 and 153-157 with invoice, matched_fields and expected_fields
\* kept from the call before
begin_call_keeping_locals(w) ==
    /\ w \in DOMAIN workers
    /\ workers[w].pc = "idle"
    /\ workers[w].queue # <<>>
    /\ workers' = [workers EXCEPT
                     ![w].text = Head(workers[w].queue).text,
                     ![w].tables = Head(workers[w].queue).tables,
                     ![w].pc = "number"]
    /\ UNCHANGED <<text, tables, pc, invoice, verdict, file_path>>

\* lines 125 and 153-157: the next document is decoded and the locals
\* are created
BeginCall(w) ==
    /\ w \in DOMAIN workers
    /\ workers[w].pc = "idle"
    /\ workers[w].queue # <<>>
    /\ workers' = [workers EXCEPT
                     ![w].text = Head(workers[w].queue).text,
                     ![w].tables = Head(workers[w].queue).tables,
                     ![w].invoice = InvoiceData,
                     ![w].matched_fields = 0,
                     ![w].expected_fields = <<>>,
                     ![w].pc = "number"]
    /\ UNCHANGED <<text, tables, pc, invoice, verdict, file_path>>

\* worker w is at line `at` and runs to the next step, which leaves its
\* locals as loc
StepTo(w, at, loc) ==
    /\ w \in DOMAIN workers
    /\ workers[w].pc = at
    /\ workers' = [workers EXCEPT ![w] = loc]
    /\ UNCHANGED <<text, tables, pc, invoice, verdict, file_path>>

\* lines 160-163, invoice_number being what _extract_invoice_number gave
number_lines(loc, invoice_number) ==
    [loc EXCEPT !.invoice.invoice_number = invoice_number,
                !.matched_fields = @ + B2N(invoice_number # <<>>),
                !.expected_fields = Append(@, "invoice_number"),
                !.pc = "date"]

StepNumber(w) ==
    StepTo(w, "number",
        number_lines(workers[w], _extract_invoice_number(workers[w].text)))

\* lines 166-169
date_lines(loc, invoice_date) ==
    [loc EXCEPT !.invoice.invoice_date = invoice_date,
                !.matched_fields = @ + B2N(invoice_date # <<>>),
                !.expected_fields = Append(@, "invoice_date"),
                !.pc = "tax_ids"]

StepDate(w) ==
    StepTo(w, "date", date_lines(workers[w], _extract_date(workers[w].text)))

\* lines 172-181
tax_ids_lines(loc, tax_ids) ==
    [loc EXCEPT !.invoice.seller_id =
                    IF Len(tax_ids) >= 1 THEN tax_ids[1] ELSE @,
                !.invoice.buyer_id =
                    IF Len(tax_ids) >= 2 THEN tax_ids[2] ELSE @,
                !.matched_fields =
                    @ + B2N(Len(tax_ids) >= 1) + B2N(Len(tax_ids) >= 2),
                !.expected_fields = @ \o <<"seller_id", "buyer_id">>,
                !.pc = "names"]

StepTaxIds(w) ==
    StepTo(w, "tax_ids",
        tax_ids_lines(workers[w], _extract_tax_ids(workers[w].text)))

\* lines 184-193
names_lines(loc, names) ==
    [loc EXCEPT !.invoice.seller_name =
                    IF Len(names) >= 1 THEN names[1] ELSE @,
                !.invoice.buyer_name =
                    IF Len(names) >= 2 THEN names[2] ELSE @,
                !.matched_fields =
                    @ + B2N(Len(names) >= 1) + B2N(Len(names) >= 2),
                !.expected_fields = @ \o <<"seller_name", "buyer_name">>,
                !.pc = "amounts"]

StepNames(w) ==
    StepTo(w, "names",
        names_lines(workers[w], _extract_company_names(workers[w].text)))

\* lines 196-203; the dict amounts is empty when it has none of the keys
amounts_lines(loc, amounts) ==
    IF amounts.has_total \/ amounts.has_tax \/ amounts.has_subtotal
    THEN [loc EXCEPT !.invoice.total_amount = amounts.total,
                     !.invoice.tax_amount = amounts.tax,
                     !.invoice.subtotal = amounts.subtotal,
                     !.matched_fields = @ + B2N(FPositive(amounts.total)),
                     !.expected_fields = Append(@, "total_amount"),
                     !.pc = "items"]
    ELSE [loc EXCEPT !.expected_fields = Append(@, "total_amount"),
                     !.pc = "items"]

StepAmounts(w) ==
    StepTo(w, "amounts",
        amounts_lines(workers[w], _extract_amounts(workers[w].text)))

\* lines 206-210
items_lines(loc, items) ==
    IF loc.tables # <<>>
    THEN [loc EXCEPT !.invoice.items = items,
                     !.matched_fields = @ + B2N(items # <<>>),
                     !.expected_fields = Append(@, "items"),
                     !.pc = "confidence"]
    ELSE [loc EXCEPT !.pc = "confidence"]

StepItems(w) ==
    StepTo(w, "items",
        items_lines(workers[w],
                    IF workers[w].tables # <<>>
                    THEN _extract_items_from_tables(workers[w].tables)
                    ELSE <<>>))

\* the record of lines 213-216 and 129, with matched_fields as given
ReturnedRecord(loc, matched_fields) ==
    [loc.invoice EXCEPT
       !.confidence =
           IF Len(loc.expected_fields) > 0
           THEN [num |-> matched_fields, den |-> Len(loc.expected_fields)]
           ELSE [num |-> 0, den |-> 1],
       !.raw_text = loc.text]

\* lines 213-216 and 129-131 with matched_fields a variable that the
\* workers share: the count of the worker that wrote it last, here the
\* first one
step_confidence_shared(w) ==
    /\ w \in DOMAIN workers
    /\ workers[w].pc = "confidence"
    /\ workers' = [workers EXCEPT
                     ![w].done =
                         Append(@, [doc |-> Head(workers[w].queue),
                                    record |-> ReturnedRecord(workers[w],
                                        workers[1].matched_fields)]),
                     ![w].queue = Tail(@),
                     ![w].pc = "idle"]
    /\ UNCHANGED <<text, tables, pc, invoice, verdict, file_path>>

\* lines 213-216 and 129-131: the confidence, the raw text, and the
\* record goes to the caller
StepConfidence(w) ==
    /\ w \in DOMAIN workers
    /\ workers[w].pc = "confidence"
    /\ workers' = [workers EXCEPT
                     ![w].done =
                         Append(@, [doc |-> Head(workers[w].queue),
                                    record |-> ReturnedRecord(workers[w],
                                        workers[w].matched_fields)]),
                     ![w].queue = Tail(@),
                     ![w].pc = "idle"]
    /\ UNCHANGED <<text, tables, pc, invoice, verdict, file_path>>

\* the path of a PDF document
DocumentPath ==
    [kind |-> "document", suffix |-> <<".", "p", "d", "f">>,
     stat |-> "answers"]

\* the state before any call, for the document (t, g)
Start(t, g) ==
    /\ text = t
    /\ tables = g
    /\ pc = "input"
    /\ invoice = InvoiceData
    /\ verdict = "none"
    /\ file_path = DocumentPath
    /\ workers = <<>>

Returned == pc \in {"from_text", "from_pdf"}

---------------------------------------------------------------------------
(* Documents.  The texts are made of fragments: the tokens the patterns    *)
(* look for, well-formed and not, and what separates them.                 *)

MaxParts == 3      \* fragments in the text of a document
MaxTables == 1     \* table grids in a document
MaxClauses == 3    \* keyword clauses in a text of amounts

\* all concatenations of at most n fragments of V
RECURSIVE Concats(_, _)
Concats(V, n) ==
    IF n = 0 THEN {<<>>}
    ELSE LET S == Concats(V, n - 1)
         IN  S \cup {s \o f : s \in S, f \in V}

\* all sequences of at most n elements of G
RECURSIVE SeqsUpTo(_, _)
SeqsUpTo(G, n) ==
    IF n = 0 THEN {<<>>}
    ELSE LET S == SeqsUpTo(G, n - 1)
         IN  S \cup {Append(s, g) : s \in S, g \in G}

\* all concatenations of one choice per slot
RECURSIVE Fill(_, _)
Fill(slots, n) ==
    IF n = 0 THEN {<<>>}
    ELSE {s \o f : s \in Fill(slots, n - 1), f \in slots[n]}

Id53212539 == <<"5", "3", "2", "1", "2", "5", "3", "9">>
Id12345675 == <<"1", "2", "3", "4", "5", "6", "7", "5">>
Id12345678 == <<"1", "2", "3", "4", "5", "6", "7", "8">>
NoAB12345678 == <<"A", "B">> \o Id12345678

DocVocab ==
    { \* AB12345678 113/05/20, then a line break
      NoAB12345678 \o <<" ", "1", "1", "3", "/", "0", "5", "/", "2", "0", "\n">>,
      \* ZC-12345675 稅額 50, then a line break: the digits pass the checksum
      <<"Z", "C", "-">> \o Id12345675
        \o <<" ", c_shui, c_e, " ", "5", "0", "\n">>,
      \* 53212539 12345675 and a space
      Id53212539 \o <<" ">> \o Id12345675 \o <<" ">>,
      \* 12345678 合計 0 and a space: the digits fail the checksum
      Id12345678 \o <<" ", c_he, c_ji, " ", "0", " ">>,
      \* 統編53212539 賣方：天大, then a line break: the identifier follows
      \* a word character
      <<c_tong, c_bian>> \o Id53212539
        \o <<" ", c_mai, c_fang, c_fcolon, c_tian, c_da, "\n">>,
      \* 大天公司 天大企業 合計 1,050 and a space
      <<c_da, c_tian, c_gong, c_si, " ", c_tian, c_da, c_qi, c_ye, " ",
        c_he, c_ji, " ", "1", ",", "0", "5", "0", " ">> }

\* a title row, then the header row, then two data rows
GridItems ==
    << <<<<c_tian, c_da>>>>,
       <<<<c_pin, c_ming>>, <<c_shu, c_liang>>, <<c_dan, c_jia>>,
         <<c_jin, c_e>>>>,
       <<<<c_bi>>, <<"2">>, <<"1", "0">>, <<"2", "0">>>>,
       <<<<c_zhi>>, <<"x">>, <<"5">>, <<>>>> >>

\* no header row
GridNoHeader == << <<<<c_da>>, <<"1">>>>, <<<<c_tian>>, <<"2">>>> >>

Grids == {GridItems, GridNoHeader}

DocTexts == Concats(DocVocab, MaxParts)

DocTables == SeqsUpTo(Grids, MaxTables)

Init == \E t \in DocTexts : \E g \in DocTables : Start(t, g)

Next == ExtractFromText \/ ExtractFromPdf

Spec == Init /\ [][Next]_vars

---------------------------------------------------------------------------
(* Documents of table grids: rows in front of the header or none, a        *)
(* header row or none, at most MaxRows data rows; and the documents of     *)
(* at most MaxGrids grids taken from a few.                                *)

MaxRows == 2       \* data rows behind the header of a grid
MaxGrids == 2      \* grids in a document of several

\* nothing, a title row, a data row
RowsInFront == { <<>>, << <<<<c_tian, c_da>>>> >>,
                 << <<<<c_bi>>, <<"2">>, <<"1", "0">>, <<"2", "0">>>> >> }

HeaderRows ==
    { \* no header row
      <<>>,
      \* 品名, 數量, 單價, 金額
      << <<<<c_pin, c_ming>>, <<c_shu, c_liang>>, <<c_dan, c_jia>>,
           <<c_jin, c_e>>>> >>,
      \* 品名, 數量, 單價: no amount column
      << <<<<c_pin, c_ming>>, <<c_shu, c_liang>>, <<c_dan, c_jia>>>> >>,
      \* 天大, 商品名稱 behind a form feed and before a space, Qty,
      \* Amount: the name is the second column, no unit price column
      << <<<<c_tian, c_da>>, <<"\f", c_shang, c_pin, c_ming, c_cheng, " ">>,
           <<"Q", "t", "y">>, <<"A", "m", "o", "u", "n", "t">>>> >>,
      \* 名稱, 品名數量, 數, 單價金額: two cells for the name and for the
      \* quantity, one cell for unit price and amount
      << <<<<c_ming, c_cheng>>, <<c_pin, c_ming, c_shu, c_liang>>, <<c_shu>>,
           <<c_dan, c_jia, c_jin, c_e>>>> >> }

DataRows ==
    { \* 筆, 2, 10, 20
      <<<<c_bi>>, <<"2">>, <<"1", "0">>, <<"2", "0">>>>,
      \* 紙, x, 5 and an empty cell
      <<<<c_zhi>>, <<"x">>, <<"5">>, <<>>>>,
      \* a blank name: a carriage return and a space
      <<<<"\r", " ">>, <<"1">>, <<"1">>, <<"1">>>>,
      \* 筆 behind a carriage return and before a space, 1,000, 2.5 before
      \* a carriage return, -5
      <<<<"\r", c_bi, " ">>, <<"1", ",", "0", "0", "0">>,
        <<"2", ".", "5", "\r">>, <<"-", "5">>>>,
      \* an empty row
      <<>>,
      \* 紙 alone
      <<<<c_zhi>>>>,
      \* 紙, 1e3, 2.555, inf: float() takes an exponent, three decimals
      \* and the name of infinity
      <<<<c_zhi>>, <<"1", "e", "3">>, <<"2", ".", "5", "5", "5">>,
        <<"i", "n", "f">>>>,
      \* 品名, 2 behind the separator U+001C, -, 1.2.3: a name keyword in
      \* a data row, nothing parses (str.strip() drops U+001C, float()
      \* does not)
      <<<<c_pin, c_ming>>, <<"u001c", "2">>, <<"-">>,
        <<"1", ".", "2", ".", "3">>>> }

RowGrids ==
    {f \o h \o r : f \in RowsInFront, h \in HeaderRows,
                   r \in SeqsUpTo(DataRows, MaxRows)}

\* 品名, 數量, 單價 and the row 筆, 2, 10
GridNoAmountColumn ==
    << <<<<c_pin, c_ming>>, <<c_shu, c_liang>>, <<c_dan, c_jia>>>>,
       <<<<c_bi>>, <<"2">>, <<"1", "0">>>> >>

\* 品名, 數量, 單價, 金額 and the row 筆, 1.5, 0.33, 0: the amount is
\* spelled out as 0
GridZeroAmount ==
    << <<<<c_pin, c_ming>>, <<c_shu, c_liang>>, <<c_dan, c_jia>>,
         <<c_jin, c_e>>>>,
       <<<<c_bi>>, <<"1", ".", "5">>, <<"0", ".", "3", "3">>, <<"0">>>> >>

\* 品名, 數量, 單價, 金額 and the rows of GridItems in the other order
GridItemsReversed == <<GridItems[2], GridItems[4], GridItems[3]>>

FewGrids == {GridItems, GridItemsReversed, GridNoHeader, GridNoAmountColumn,
             GridZeroAmount}

TableDocs == {<<g>> : g \in RowGrids} \cup SeqsUpTo(FewGrids, MaxGrids)

InitTables == \E g \in TableDocs : Start(<<>>, g)

NextTables == ExtractFromPdf

SpecTables == InitTables /\ [][NextTables]_vars

---------------------------------------------------------------------------
(* Texts of identifiers: at most MaxTokens tokens, each followed by a      *)
(* space.                                                                  *)

MaxTokens == 4     \* tokens in a text of identifiers

Id04595257 == <<"0", "4", "5", "9", "5", "2", "5", "7">>

\* three identifiers that pass the checksum, one that fails it, and one
\* that follows a letter
IdTokens ==
    { Id53212539 \o <<" ">>, Id12345675 \o <<" ">>, Id04595257 \o <<" ">>,
      Id12345678 \o <<" ">>, <<"x">> \o Id53212539 \o <<" ">> }

IdTexts == Concats(IdTokens, MaxTokens)

InitIds == \E t \in IdTexts : Start(t, <<>>)

NextIds == ExtractFromText

SpecIds == InitIds /\ [][NextIds]_vars

---------------------------------------------------------------------------
(* Strings handed to the validator that are not 8 ASCII digits, or are:    *)
(* an identifier with one character replaced, cut short, extended, or      *)
(* written in full-width digits.                                           *)

FullwidthChar(n) ==
    CASE n = 0 -> "uff10" [] n = 1 -> "uff11" [] n = 2 -> "uff12"
      [] n = 3 -> "uff13" [] n = 4 -> "uff14" [] n = 5 -> "uff15"
      [] n = 6 -> "uff16" [] n = 7 -> "uff17" [] n = 8 -> "uff18"
      [] n = 9 -> "uff19"

FormatBases == {Id53212539, Id12345675, Id12345678}

\* what replaces a character; "=" stands for the full-width form of the
\* digit that is replaced
Replacements == {"a", ".", " ", "-", c_sup2, "0", "="}

FormatTexts ==
    {[b EXCEPT ![i] = IF c = "=" THEN FullwidthChar(DigitVal(b[i])) ELSE c] :
        b \in FormatBases, i \in 1..8, c \in Replacements}
      \cup {SubSeq(b, 1, n) : b \in FormatBases, n \in 0..8}
      \cup {b \o <<c>> : b \in FormatBases, c \in {"0", " "}}
      \cup {b \o b : b \in FormatBases}
      \cup {[i \in 1..8 |-> FullwidthChar(DigitVal(b[i]))] : b \in FormatBases}

InitFormat == \E t \in FormatTexts : Start(t, <<>>)

NextFormat == Validate

SpecFormat == InitFormat /\ [][NextFormat]_vars

---------------------------------------------------------------------------
(* Documents that differ in the fields their text holds: at most           *)
(* MaxFieldParts fragments, each of which brings one or two fields.        *)

MaxFieldParts == 2 \* fragments in the text of such a document

FieldVocab ==
    { NoAB12345678 \o <<" ">>,
      Id53212539 \o <<" ">> \o Id12345675 \o <<" ">>,
      \* 合計 1,050 and a space
      <<c_he, c_ji, " ", "1", ",", "0", "5", "0", " ">>,
      \* 稅額 50 and a space
      <<c_shui, c_e, " ", "5", "0", " ">> }

FieldTexts == Concats(FieldVocab, MaxFieldParts)

FieldTables == {<<>>, <<GridItems>>, <<GridNoHeader>>}

InitFields == \E t \in FieldTexts : \E g \in FieldTables : Start(t, g)

NextFields == ExtractFromText \/ ExtractFromPdf

SpecFields == InitFields /\ [][NextFields]_vars

---------------------------------------------------------------------------
(* Texts of names: at most MaxNames tokens, each followed by a space.      *)

MaxNames == 3 \* tokens in a text of names

NameTokens ==
    { \* 大天公司
      <<c_da, c_tian, c_gong, c_si, " ">>,
      \* 天大企業
      <<c_tian, c_da, c_qi, c_ye, " ">>,
      \* 賣方：天大
      <<c_mai, c_fang, c_fcolon, c_tian, c_da, " ">>,
      \* 買方:大, a name of one character
      <<c_mai2, c_fang, ":", c_da, " ">>,
      \* 賣方：大天公司, which two patterns match
      <<c_mai, c_fang, c_fcolon, c_da, c_tian, c_gong, c_si, " ">>,
      \* 營業人： 天大
      <<c_ying2, c_ye, c_ren, c_fcolon, " ", c_tian, c_da, " ">>,
      \* 買方: 大大 with a carriage return and an ideographic space
      \* behind the colon
      <<c_mai2, c_fang, ":", "\r", "u3000", c_da, c_da, " ">> }

NameTexts == Concats(NameTokens, MaxNames)

InitNames == \E t \in NameTexts : Start(t, <<>>)

NextNames == ExtractFromText

SpecNames == InitNames /\ [][NextNames]_vars

---------------------------------------------------------------------------
(* Documents with little in them: texts of at most MaxFieldParts           *)
(* fragments that match no pattern by themselves, and at most MaxGrids     *)
(* grids without header row, without rows, or with rows that lack cells.   *)

SparseVocab ==
    { \* x53212539 合 計 5, then a line break: digits glued to a letter and
      \* a total keyword broken by a space
      <<"x">> \o Id53212539 \o <<" ", c_he, " ", c_ji, " ", "5", "\n">>,
      \* 12345678 and a space: the digits fail the checksum
      Id12345678 \o <<" ">>,
      \* AE12345678 1/2 and a space: no invoice number, no date
      <<"A", "E">> \o Id12345678 \o <<" ", "1", "/", "2", " ">>,
      \* 5321253² and a space: str.isdigit() holds for all eight
      \* characters, \d for seven
      <<"5", "3", "2", "1", "2", "5", "3", c_sup2, " ">> }

\* 品名, 數量, 單價; an empty row; a row with an empty name cell; a row
\* whose name cell is a carriage return; 紙 alone
GridSparse ==
    << <<<<c_pin, c_ming>>, <<c_shu, c_liang>>, <<c_dan, c_jia>>>>,
       <<>>,
       <<<<>>, <<"2">>>>,
       <<<<"\r">>, <<"2">>>>,
       <<<<c_zhi>>>> >>

\* the grid without rows, the grid without header row, the sparse grid
SparseGrids == {<<>>, GridNoHeader, GridSparse}

InitSparse ==
    \E t \in Concats(SparseVocab, MaxFieldParts) :
        \E g \in SeqsUpTo(SparseGrids, MaxGrids) : Start(t, g)

NextSparse == ExtractFromText \/ ExtractFromPdf

SpecSparse == InitSparse /\ [][NextSparse]_vars

---------------------------------------------------------------------------
(* Documents whose record goes through to_dict and run_automation: at      *)
(* most MaxGrids grids.                                                    *)

RoundTripGrids ==
    {GridItems, GridNoHeader, GridNoAmountColumn, GridSparse, GridZeroAmount,
     <<>>}

InitRoundTrip ==
    \E g \in SeqsUpTo(RoundTripGrids, MaxGrids) : Start(<<>>, g)

NextRoundTrip == ExtractFromPdf \/ RunAutomation

SpecRoundTrip == InitRoundTrip /\ [][NextRoundTrip]_vars

---------------------------------------------------------------------------
(* Paths: nothing, a directory, a file that is no readable PDF or a PDF    *)
(* document, under names with four suffixes, with an existence test that   *)
(* answers or fails; a document has a text of at most MaxFieldParts        *)
(* fragments.                                                              *)

Suffixes ==
    {<<".", "p", "d", "f">>, <<".", "P", "D", "F">>, <<".", "t", "x", "t">>,
     <<>>}

\* what os.stat() does on the path: a name that is too long has
\* nothing at it
StatOutcomes == {"answers", "OSError", "PermissionError"}

InitPath ==
    \E k \in {"missing", "directory", "unreadable", "document"} :
      \E x \in Suffixes : \E st \in StatOutcomes :
        \E t \in FieldTexts : \E g \in FieldTables :
            /\ k # "document" => t = <<>> /\ g = <<>>
            /\ st = "OSError" => k = "missing"
            /\ text = t
            /\ tables = g
            /\ pc = "input"
            /\ invoice = InvoiceData
            /\ verdict = "none"
            /\ file_path = [kind |-> k, suffix |-> x, stat |-> st]
            /\ workers = <<>>

NextPath == ExtractFromPdf \/ ExtractFromPdfRaises

SpecPath == InitPath /\ [][NextPath]_vars

---------------------------------------------------------------------------
(* Workers: one extractor that is called for at most MaxCalls documents    *)
(* in a row, and at most MaxWorkers extractors with one document each      *)
(* whose steps interleave.                                                 *)

MaxCalls == 2      \* calls on one extractor
MaxWorkers == 2    \* extractors at work at the same time

WorkerDocs ==
    { \* AB12345678 53212539 12345675 with the grid of items
      [text |-> NoAB12345678 \o <<" ">> \o Id53212539 \o <<" ">>
                  \o Id12345675 \o <<" ">>,
       tables |-> <<GridItems>>],
      \* 大天公司 天大企業 合計 1,050 without grids
      [text |-> <<c_da, c_tian, c_gong, c_si, " ", c_tian, c_da, c_qi, c_ye,
                  " ", c_he, c_ji, " ", "1", ",", "0", "5", "0", " ">>,
       tables |-> <<>>],
      \* no text, a grid without header row
      [text |-> <<>>, tables |-> <<GridNoHeader>>] }

\* the variables of the atomic calls, which the workers leave alone
NoAtomicCall ==
    /\ text = <<>>
    /\ tables = <<>>
    /\ pc = "input"
    /\ invoice = InvoiceData
    /\ verdict = "none"
    /\ file_path = DocumentPath

InitCalls ==
    /\ NoAtomicCall
    /\ \E q \in SeqsUpTo(WorkerDocs, MaxCalls) : workers = <<IdleWorker(q)>>

InitWorkers ==
    /\ NoAtomicCall
    /\ \E n \in 2..MaxWorkers :
         \E ds \in [1..n -> WorkerDocs] :
             workers = [w \in 1..n |-> IdleWorker(<<ds[w]>>)]

NextWorkers ==
    \E w \in 1..MaxWorkers :
        \/ BeginCall(w)
        \/ StepNumber(w)
        \/ StepDate(w)
        \/ StepTaxIds(w)
        \/ StepNames(w)
        \/ StepAmounts(w)
        \/ StepItems(w)
        \/ StepConfidence(w)

SpecCalls == InitCalls /\ [][NextWorkers]_vars

SpecWorkers == InitWorkers /\ [][NextWorkers]_vars

---------------------------------------------------------------------------
(* Identifiers handed to the validator: eight digits, every digit at the   *)
(* three last positions (weights 2, 4, 1), a few at the others.            *)

TaxIdSlots ==
    << {<<"1">>, <<"5">>}, {<<"2">>, <<"3">>, <<"9">>}, {<<"2">>, <<"3">>},
       {<<"1">>, <<"4">>}, {<<"2">>, <<"5">>},
       {<<d>> : d \in AsciiDigit}, {<<d>> : d \in AsciiDigit}, {<<d>> : d \in AsciiDigit} >>

TaxIdTexts == Fill(TaxIdSlots, 8)

InitValidator == \E t \in TaxIdTexts : Start(t, <<>>)

NextValidator == Validate

SpecValidator == InitValidator /\ [][NextValidator]_vars

---------------------------------------------------------------------------
(* Texts of dates: an optional Gregorian date in front, year, separator,   *)
(* month, separator, day, an optional 日, an optional Gregorian date       *)
(* behind.                                                                 *)

DateSlots ==
    << {<<>>, <<"2", "0", "2", "3", "-", "1", "-", "2", " ">>},
       {<<"1", "1", "3">>, <<"1", "5", "0">>, <<"1", "5", "1">>, <<"0", "0">>,
        <<"9", "9">>, <<"7">>, <<"2", "0", "2", "4">>},
       {<<c_nian>>, <<"/">>, <<"-">>, <<" ", "/", " ">>,
        <<"\r", "/", "u00a0">>},
       {<<"5">>, <<"0", "5">>, <<"1", "2">>},
       {<<c_yue>>, <<"/">>, <<"-">>},
       {<<"3">>, <<"2", "0">>, <<"0", "3", "1">>},
       {<<>>, <<c_ri>>},
       {<<>>, <<" ", "2", "0", "2", "5", "/", "1", "1", "/", "3", "0">>} >>

DateTexts == Fill(DateSlots, 8)

InitDate == \E t \in DateTexts : Start(t, <<>>)

NextDate == ExtractFromText

SpecDate == InitDate /\ [][NextDate]_vars

---------------------------------------------------------------------------
(* Texts of invoice numbers: something in front, two letters, a            *)
(* separator or none, digits, something behind.                            *)

NumberSlots ==
    << {<<>>, <<"N", "o", ":">>, <<"x">>},
       {<<"A">>, <<"Z">>, <<"q">>},
       {<<"A">>, <<"B">>, <<"D">>, <<"E">>},
       {<<>>, <<"-">>, <<" ">>, <<"\t">>, <<"\n">>, <<"\r">>, <<"-", "-">>,
        <<"_">>},
       {Id12345678, Id53212539, <<"1", "2", "3", "4", "5", "6", "7">>,
        Id12345678 \o <<"9">>},
       {<<>>, <<" ">>} >>

NumberTexts == Fill(NumberSlots, 6)

InitNumber == \E t \in NumberTexts : Start(t, <<>>)

NextNumber == ExtractFromText

SpecNumber == InitNumber /\ [][NextNumber]_vars

---------------------------------------------------------------------------
(* Texts of amounts: clauses "keyword gap figure", in any order.           *)

ClauseSlots ==
    << { <<c_he, c_ji>>, <<c_shui, c_e>>, <<c_xiao, c_ji>>, <<"T", "A", "X">> },
       { <<" ">> },
       { <<"1", ",", "0", "5", "0", " ">>, <<"5", "0", "\n">>, <<",", " ">> } >>

\* the last one is total: $900.50 and a space
Clauses ==
    Fill(ClauseSlots, 3)
      \cup { <<"t", "o", "t", "a", "l", ":", " ", "$",
               "9", "0", "0", ".", "5", "0", " ">> }

AmountTexts == Concats(Clauses, MaxClauses)

InitAmounts == \E t \in AmountTexts : Start(t, <<>>)

NextAmounts == ExtractFromText

SpecAmounts == InitAmounts /\ [][NextAmounts]_vars

---------------------------------------------------------------------------
(* The end-to-end document: AB12345678, 53212539, 12345675, 合計 1050 and  *)
(* 113/05/20 in this order, white space around and between them.           *)

Blanks == {<<" ">>, <<"\n">>, <<"\t">>, <<" ", "\n">>}

FixtureSlots ==
    << {<<>>, <<" ">>},
       {NoAB12345678}, Blanks,
       {Id53212539}, Blanks,
       {Id12345675}, Blanks,
       {<<c_he, c_ji, " ", "1", "0", "5", "0">>}, Blanks,
       {<<"1", "1", "3", "/", "0", "5", "/", "2", "0">>},
       {<<>>, <<"\n">>} >>

FixtureTexts == Fill(FixtureSlots, 11)

InitFixture == \E t \in FixtureTexts : Start(t, <<>>)

NextFixture == ExtractFromText

SpecFixture == InitFixture /\ [][NextFixture]_vars

---------------------------------------------------------------------------
(* Properties of the documents of Spec.                                    *)

\* C1: the confidence of every returned record lies in [0.0, 1.0]
ConfidenceInUnitInterval ==
    Returned =>
        /\ invoice.confidence.den > 0
        /\ 0 <= invoice.confidence.num
        /\ invoice.confidence.num <= invoice.confidence.den

\* a document with tables whose record has all eight checklist fields
FullConfidenceReached ==
    /\ pc = "from_pdf"
    /\ tables # <<>>
    /\ invoice.confidence = [num |-> 8, den |-> 8]

\* the populated checklist fields, counted on the stored record
PopulatedFields(r, has_tables) ==
    B2N(r.invoice_number # <<>>) + B2N(r.invoice_date # <<>>)
      + B2N(r.seller_id # <<>>) + B2N(r.buyer_id # <<>>)
      + B2N(r.seller_name # <<>>) + B2N(r.buyer_name # <<>>)
      + B2N(FPositive(r.total_amount))
      + (IF has_tables THEN B2N(r.items # <<>>) ELSE 0)

\* C2: the confidence is (populated checklist fields of the record) over
\* (size of the checklist), the checklist being the seven text fields
\* plus the items exactly when the document has a table grid: 7 or 8
ConfidenceIsPopulatedOverChecklist ==
    Returned =>
        /\ invoice.confidence.den = (IF tables # <<>> THEN 8 ELSE 7)
        /\ invoice.confidence.num = PopulatedFields(invoice, tables # <<>>)
        /\ (tables = <<>> => invoice.items = <<>>)

\* a document with tables and no items, and a total of zero that its
\* text spells out: neither counts
ZeroTotalNotCounted ==
    /\ pc = "from_pdf"
    /\ tables # <<>>
    /\ invoice.items = <<>>
    /\ _extract_amounts(text).has_total
    /\ FIsZero(invoice.total_amount)
    /\ invoice.confidence.den = 8
    /\ invoice.confidence.num > 0

\* C3: seller id and buyer id are each empty or eight digits that the
\* checksum validator accepts; no 8-digit token of the text that fails
\* the checksum is in either field
IdsPassedChecksum ==
    Returned =>
        /\ \A id \in {invoice.seller_id, invoice.buyer_id} :
               \/ id = <<>>
               \/ /\ Len(id) = 8
                  /\ \A i \in 1..8 : id[i] \in AsciiDigit
                  /\ _is_valid_taiwan_tax_id(id)
        /\ \A k \in 1..Len(TaxIdFindAll(text, 1)) :
               LET token == TaxIdFindAll(text, 1)[k]
               IN  ~_is_valid_taiwan_tax_id(token) =>
                       /\ invoice.seller_id # token
                       /\ invoice.buyer_id # token

\* the token 12345678 fails the checksum and comes first, the seller id
\* is the valid token behind it
InvalidTokenSkipped ==
    /\ Returned
    /\ Len(TaxIdFindAll(text, 1)) >= 2
    /\ TaxIdFindAll(text, 1)[1] = Id12345678
    /\ invoice.seller_id = Id53212539

---------------------------------------------------------------------------
(* Properties of the validator, under SpecValidator.                       *)

\* digit sums of d * 2 and of d * 4, for d = 0..9
Folded2 == <<0, 2, 4, 6, 8, 1, 3, 5, 7, 9>>
Folded4 == <<0, 4, 8, 3, 7, 2, 6, 10, 5, 9>>

ChecksumTotal(id) ==
    DigitVal(id[1]) + Folded2[DigitVal(id[2]) + 1]
      + DigitVal(id[3]) + Folded2[DigitVal(id[4]) + 1]
      + DigitVal(id[5]) + Folded2[DigitVal(id[6]) + 1]
      + Folded4[DigitVal(id[7]) + 1] + DigitVal(id[8])

ChecksumRule(id) ==
    \/ ChecksumTotal(id) % 10 = 0
    \/ id[7] = "7" /\ (ChecksumTotal(id) + 1) % 10 = 0

\* C4: a string of 8 digits is accepted exactly when the sum of the
\* folded products with the weights 1,2,1,2,1,2,4,1 is 0 mod 10, or its
\* digit at index 6 is 7 and the sum plus 1 is 0 mod 10; 53212539 and
\* 12345675 are accepted
ValidatorIsChecksumRule ==
    (pc = "validated" /\ Len(text) = 8
        /\ \A i \in 1..8 : text[i] \in AsciiDigit) =>
        /\ (verdict = "valid") <=> ChecksumRule(text)
        /\ verdict \in {"valid", "invalid"}
        /\ text \in {Id53212539, Id12345675} => verdict = "valid"

\* 12345675 is accepted, by the rule for a 7 at index 6
SpecialRuleAccepts ==
    /\ pc = "validated"
    /\ text = Id12345675
    /\ ChecksumTotal(text) % 10 # 0
    /\ verdict = "valid"

---------------------------------------------------------------------------
(* The end-to-end document, under SpecFixture.                             *)

\* C5: for the text AB12345678, 53212539, 12345675, 合計 1050, 113/05/20
\* (no other digits, no tables) the record has invoice_number AB12345678,
\* seller id 53212539, buyer id 12345675, total 1050, invoice_date
\* 2024/05/20 and confidence 5/7
FixtureRecord ==
    pc = "from_text" =>
        /\ invoice.invoice_number = NoAB12345678
        /\ invoice.seller_id = Id53212539
        /\ invoice.buyer_id = Id12345675
        /\ invoice.total_amount = FInt(1050)
        /\ invoice.invoice_date
             = <<"2", "0", "2", "4", "/", "0", "5", "/", "2", "0">>
        /\ invoice.confidence = [num |-> 5, den |-> 7]
        /\ invoice.items = <<>>

\* the document with one token per line has been extracted
FixtureExtracted ==
    /\ pc = "from_text"
    /\ text = NoAB12345678 \o <<"\n">> \o Id53212539 \o <<"\n">>
                \o Id12345675 \o <<"\n">>
                \o <<c_he, c_ji, " ", "1", "0", "5", "0", "\n">>
                \o <<"1", "1", "3", "/", "0", "5", "/", "2", "0">>
    /\ invoice.confidence.num = 5

---------------------------------------------------------------------------
(* Properties of the dates, under SpecDate.                                *)

\* d is YYYY/MM/DD: four digits, "/", two digits, "/", two digits
CanonicalDate(d) ==
    /\ Len(d) = 10
    /\ \A i \in {1, 2, 3, 4, 6, 7, 9, 10} : d[i] \in AsciiDigit
    /\ d[5] = "/"
    /\ d[8] = "/"

\* C6: the invoice date of every returned record is the empty string or
\* of the form YYYY/MM/DD, also when the local-calendar pattern matches a
\* year outside 1..150 such as 151 or 00
DateEmptyOrCanonical ==
    pc = "from_text" =>
        \/ invoice.invoice_date = <<>>
        \/ CanonicalDate(invoice.invoice_date)

\* the year, month and day numbers a date string d spells: the digits
\* before the first "/", between the two, after the second
DateParts(d) ==
    LET slashes == {i \in 1..Len(d) : d[i] = "/"}
        a == Min(slashes)
        b == Max(slashes)
    IN  [year |-> ToInt(SubSeq(d, 1, a - 1)),
         month |-> ToInt(SubSeq(d, a + 1, b - 1)),
         day |-> ToInt(SubSeq(d, b + 1, Len(d))),
         month_len |-> b - a - 1,
         day_len |-> Len(d) - b]

Date20240520 == <<"2", "0", "2", "4", "/", "0", "5", "/", "2", "0">>

\* 113年5月20日
Text113Y5M20D == <<"1", "1", "3", c_nian, "5", c_yue, "2", "0", c_ri>>

\* C7: when the local-calendar pattern matches, its leftmost match with
\* year y, month m, day d gives the date: the year is y + 1911 if
\* 1 <= y <= 150 and y otherwise, month and day are m and d on two
\* digits; 113年5月20日 gives 2024/05/20, a year of 151 stays 151, and a
\* Gregorian date in the same text does not change this
LocalCalendarDateConverted ==
    (pc = "from_text" /\ DateTwStarts(text) # {}) =>
        LET m == DateTwAt(text, Min(DateTwStarts(text)))
            y == ToInt(m.year)
            d == invoice.invoice_date
        IN  /\ Cardinality({i \in 1..Len(d) : d[i] = "/"}) = 2
            /\ \A i \in 1..Len(d) : d[i] \in AsciiDigit \cup {"/"}
            /\ DateParts(d).year = (IF 1 <= y /\ y <= 150 THEN y + 1911 ELSE y)
            /\ DateParts(d).month = ToInt(m.month)
            /\ DateParts(d).day = ToInt(m.day)
            /\ DateParts(d).month_len = 2
            /\ DateParts(d).day_len = 2
            /\ (text = Text113Y5M20D => d = Date20240520)
            /\ (m.year = <<"1", "5", "1">> => DateParts(d).year = 151)

\* 2023-1-2 113年5月20日: the Gregorian date comes first in the text and
\* the local-calendar date is the one returned
LocalCalendarDateWins ==
    /\ pc = "from_text"
    /\ text = <<"2", "0", "2", "3", "-", "1", "-", "2", " ">> \o Text113Y5M20D
    /\ DateWesternStarts(text) # {}
    /\ Min(DateWesternStarts(text)) < Min(DateTwStarts(text))
    /\ invoice.invoice_date = Date20240520

\* t is one date token YYYY-M-D or YYYY/M/D and nothing else: four
\* digits, a separator, one or two digits, a separator, one or two
\* digits
PlainGregorian(t) ==
    \E nm \in {1, 2} : \E nd \in {1, 2} :
        /\ Len(t) = 6 + nm + nd
        /\ \A i \in (1..4) \cup (6..(5 + nm)) \cup ((7 + nm)..(6 + nm + nd)) :
               t[i] \in AsciiDigit
        /\ t[5] \in {"-", "/"}
        /\ t[6 + nm] \in {"-", "/"}

\* the year digits and the month and day numbers of such a text
GregorianParts(t) ==
    LET b == Max({i \in 6..Len(t) : t[i] \in {"-", "/"}})
    IN  [year |-> SubSeq(t, 1, 4),
         month |-> ToInt(SubSeq(t, 6, b - 1)),
         day |-> ToInt(SubSeq(t, b + 1, Len(t)))]

\* C8: a text that is one four-digit Gregorian date YYYY-MM-DD or
\* YYYY/MM/DD, with either separator and one or two digits of month and
\* day, gives that year, month and day as YYYY/MM/DD; 2024-05-20 and
\* 2024/05/20 both give 2024/05/20
GregorianDateKept ==
    (pc = "from_text" /\ PlainGregorian(text)) =>
        /\ CanonicalDate(invoice.invoice_date)
        /\ SubSeq(invoice.invoice_date, 1, 4) = GregorianParts(text).year
        /\ DateParts(invoice.invoice_date).month = GregorianParts(text).month
        /\ DateParts(invoice.invoice_date).day = GregorianParts(text).day
        /\ text \in {<<"2", "0", "2", "4", "-", "0", "5", "-", "2", "0">>,
                     Date20240520}
             => invoice.invoice_date = Date20240520

---------------------------------------------------------------------------
(* Properties of the invoice number, under SpecNumber.                     *)

\* C9: the invoice number of every returned record is empty or exactly
\* 10 characters, a letter A-Z, a letter A-D and 8 digits, with no
\* separator left in it
InvoiceNumberEmptyOrCanonical ==
    pc = "from_text" =>
        \/ invoice.invoice_number = <<>>
        \/ /\ Len(invoice.invoice_number) = 10
           /\ invoice.invoice_number[1] \in Upper
           /\ invoice.invoice_number[2] \in UpperAD
           /\ \A i \in 3..10 : invoice.invoice_number[i] \in AsciiDigit

---------------------------------------------------------------------------
(* Properties of the amounts, under SpecAmounts.                           *)

\* 合計 1,050 稅額 50, each figure followed by a blank
TextTotal1050Tax50 ==
    <<c_he, c_ji, " ", "1", ",", "0", "5", "0", " ",
      c_shui, c_e, " ", "5", "0", "\n">>

\* C10: without a match of the subtotal pattern and with matches of the
\* total and the tax pattern the subtotal is total minus tax; with a
\* match of the subtotal pattern the subtotal is the figure parsed from
\* it; 合計 1,050 and 稅額 50 give the subtotal 1000
SubtotalDerivedOnlyWhenAbsent ==
    pc = "from_text" =>
        /\ (/\ AmountSearch(text, SubtotalKeywords) = <<>>
            /\ AmountSearch(text, TotalKeywords) # <<>>
            /\ AmountSearch(text, TaxKeywords) # <<>>)
             => /\ invoice.subtotal
                     = FSub(invoice.total_amount, invoice.tax_amount)
                /\ invoice.total_amount
                     = _parse_amount(AmountSearch(text, TotalKeywords))
                /\ invoice.tax_amount
                     = _parse_amount(AmountSearch(text, TaxKeywords))
        /\ AmountSearch(text, SubtotalKeywords) # <<>>
             => invoice.subtotal
                  = _parse_amount(AmountSearch(text, SubtotalKeywords))
        /\ text = TextTotal1050Tax50 => invoice.subtotal = FInt(1000)

\* 合計 1,050 稅額 50 has been read: subtotal 1000, derived
SubtotalDerived ==
    /\ pc = "from_text"
    /\ text = TextTotal1050Tax50
    /\ AmountSearch(text, SubtotalKeywords) = <<>>
    /\ invoice.total_amount = FInt(1050)
    /\ invoice.tax_amount = FInt(50)
    /\ invoice.subtotal = FInt(1000)

---------------------------------------------------------------------------
(* Properties of the line items, under SpecTables.  The rows an item can   *)
(* come from are described here from the grid alone.                       *)

\* smallest index of a cell whose trimmed text contains a keyword of kws,
\* 0 if there is none
FirstMatch(cells, kws) ==
    IF \E i \in 1..Len(cells) : ContainsAny(Strip(cells[i]), kws)
    THEN CHOOSE i \in 1..Len(cells) :
             /\ ContainsAny(Strip(cells[i]), kws)
             /\ \A j \in 1..(i - 1) : ~ContainsAny(Strip(cells[j]), kws)
    ELSE 0

HasNameKeyword(row) ==
    \E j \in 1..Len(row) : ContainsAny(row[j], NameKeywords)

\* index of the first row with a cell that contains a name keyword, 0 if
\* there is none
FirstHeader(table) ==
    IF \E i \in 1..Len(table) : HasNameKeyword(table[i])
    THEN CHOOSE i \in 1..Len(table) :
             /\ HasNameKeyword(table[i])
             /\ \A j \in 1..(i - 1) : ~HasNameKeyword(table[j])
    ELSE 0

\* the rows of a grid behind its header row that have a name, each with
\* the header row it is read by
GridSources(table) ==
    IF FirstHeader(table) = 0 THEN <<>>
    ELSE LET header == table[FirstHeader(table)]
             nc == FirstMatch(header, NameKeywords)
             named(row) == Len(row) >= nc /\ Strip(row[nc]) # <<>>
             rows == SelectSeq(SubSeq(table, FirstHeader(table) + 1,
                                      Len(table)), named)
         IN  [k \in 1..Len(rows) |-> [row |-> rows[k], header |-> header]]

\* the same for the grids tbls[k..], in grid order
RECURSIVE SourcesFrom(_, _)
SourcesFrom(tbls, k) ==
    IF k > Len(tbls) THEN <<>>
    ELSE GridSources(tbls[k]) \o SourcesFrom(tbls, k + 1)

Sources == SourcesFrom(tables, 1)

\* the cell of a source row in the column of the role with keywords kws:
\* whether there is a non-empty one, whether float() takes it once the
\* thousands separators are gone, and the number
RoleCell(src, kws) ==
    LET col == FirstMatch(src.header, kws)
        there == col # 0 /\ Len(src.row) >= col /\ src.row[col] # <<>>
        f == IF there THEN FloatOf(Remove(src.row[col], ","))
             ELSE [ok |-> FALSE, val |-> FZero(FALSE)]
    IN  [column |-> col, there |-> there, ok |-> f.ok, val |-> f.val]

\* C11: an item whose row gave no amount (no amount column, an empty cell
\* or one that does not parse) and whose unit price is above 0 has the
\* amount quantity times unit price; an item whose row gave an amount has
\* that amount
AmountComputedWhenNotGiven ==
    (pc = "from_pdf" /\ Len(invoice.items) = Len(Sources)) =>
        \A k \in 1..Len(Sources) :
            LET given == RoleCell(Sources[k], AmountKeywords)
                item == invoice.items[k]
            IN  IF given.there /\ given.ok
                THEN item.amount = given.val
                ELSE FPositive(item.unit_price) =>
                         item.amount = FMul(item.quantity, item.unit_price)

\* C12: no line item of a returned record has a negative amount, whatever
\* the cells say
AmountNeverNegative ==
    pc = "from_pdf" =>
        \A k \in 1..Len(invoice.items) :
            /\ invoice.items[k].amount.k # "nan"
            /\ ~invoice.items[k].amount.neg \/ FIsZero(invoice.items[k].amount)

\* C13: the items are, grid by grid and in row order, the rows behind the
\* first row with a name keyword whose cell in the name column is not
\* blank, one item per row with the trimmed cell as its name; a grid
\* without such a header row gives none, rows in front of the header give
\* none
ItemsAreNamedRowsBehindHeader ==
    pc = "from_pdf" =>
        /\ Len(invoice.items) = Len(Sources)
        /\ \A k \in 1..Len(Sources) :
               invoice.items[k].name
                 = Strip(Sources[k].row[FirstMatch(Sources[k].header,
                                                   NameKeywords)])
        /\ (\A g \in 1..Len(tables) : FirstHeader(tables[g]) = 0)
             => invoice.items = <<>>

\* a data row, the header row, two named rows: two items
HeaderBehindOtherRows ==
    /\ pc = "from_pdf"
    /\ Len(tables) = 1
    /\ Len(tables[1]) = 4
    /\ FirstHeader(tables[1]) = 2
    /\ tables[1][1] = <<<<c_bi>>, <<"2">>, <<"1", "0">>, <<"2", "0">>>>
    /\ Len(invoice.items) = 2

\* C14: a named data row gives an item also when its quantity, unit price
\* or amount cell does not parse as a number (float() raises ValueError):
\* that field is 1.0, 0.0 or 0.0, the cells that parse are taken
UnparsableCellKeepsDefault ==
    pc = "from_pdf" =>
        /\ Len(invoice.items) = Len(Sources)
        /\ \A k \in 1..Len(Sources) :
               LET q == RoleCell(Sources[k], QtyKeywords)
                   p == RoleCell(Sources[k], PriceKeywords)
                   a == RoleCell(Sources[k], AmountKeywords)
                   item == invoice.items[k]
               IN  /\ (q.there /\ ~q.ok) => item.quantity = FInt(1)
                   /\ (p.there /\ ~p.ok) => item.unit_price = FZero(FALSE)
                   /\ (a.there /\ ~a.ok) => item.amount = FZero(FALSE)
                   /\ (q.there /\ q.ok) => item.quantity = q.val
                   /\ (p.there /\ p.ok) => item.unit_price = p.val
                   /\ (a.there /\ a.ok) => item.amount = a.val

\* 品名, 數量, 單價, 金額 and the row 紙, x, 5, "": the item 紙 with
\* quantity 1.0, unit price 5.0 and amount 0.0
UnparsableQuantityRowKept ==
    /\ pc = "from_pdf"
    /\ Len(tables) = 1
    /\ Len(tables[1]) = 2
    /\ Len(tables[1][1]) = 4
    /\ tables[1][1][1] = <<c_pin, c_ming>>
    /\ tables[1][2] = <<<<c_zhi>>, <<"x">>, <<"5">>, <<>>>>
    /\ invoice.items = << [name |-> <<c_zhi>>, quantity |-> FInt(1),
                           unit_price |-> FInt(5),
                           amount |-> FZero(FALSE)] >>

\* C15: the column of a role is the smallest index of a header cell whose
\* trimmed text contains a keyword of the role; an item of a grid without
\* such a cell has the default in that field; a header row always has a
\* name column
ColumnIsFirstMatchingHeader ==
    pc = "from_pdf" =>
        /\ \A g \in 1..Len(tables) :
               FirstHeader(tables[g]) # 0 =>
                   /\ FirstMatch(tables[g][FirstHeader(tables[g])],
                                 NameKeywords) >= 1
                   /\ \A kws \in {NameKeywords, QtyKeywords, PriceKeywords,
                                  AmountKeywords} :
                          _find_column([j \in 1..Len(tables[g][FirstHeader(tables[g])])
                                          |-> Strip(tables[g][FirstHeader(tables[g])][j])],
                                       kws)
                            = FirstMatch(tables[g][FirstHeader(tables[g])], kws)
        /\ Len(invoice.items) = Len(Sources)
        /\ \A k \in 1..Len(Sources) :
               LET q == RoleCell(Sources[k], QtyKeywords)
                   p == RoleCell(Sources[k], PriceKeywords)
                   a == RoleCell(Sources[k], AmountKeywords)
                   n == RoleCell(Sources[k], NameKeywords)
                   item == invoice.items[k]
               IN  /\ q.column = 0 => item.quantity = FInt(1)
                   /\ p.column = 0 => item.unit_price = FZero(FALSE)
                   /\ a.column = 0 => item.amount = FZero(FALSE)
                   /\ item.name = Strip(Sources[k].row[n.column])
                   /\ item.quantity
                        = (IF q.there /\ q.ok THEN q.val ELSE FInt(1))
                   /\ item.unit_price
                        = (IF p.there /\ p.ok THEN p.val ELSE FZero(FALSE))
                   /\ item.amount
                        = (IF a.there /\ a.ok THEN a.val ELSE FZero(FALSE))

\* 名稱, 品名數量, 數, 單價金額 and the row 筆, 2, 10, 20: the name is
\* read from the first column, the quantity from the second, unit price
\* and amount from the fourth
FirstOfTwoHeadersChosen ==
    /\ pc = "from_pdf"
    /\ tables = << << <<<<c_ming, c_cheng>>, <<c_pin, c_ming, c_shu, c_liang>>,
                         <<c_shu>>, <<c_dan, c_jia, c_jin, c_e>>>>,
                       <<<<c_bi>>, <<"2">>, <<"1", "0">>, <<"2", "0">>>> >> >>
    /\ invoice.items = << [name |-> <<c_bi>>, quantity |-> FInt(2),
                           unit_price |-> FInt(20),
                           amount |-> FInt(20)] >>

\* the item a named row gives when its header row and the row are the
\* only rows of the only grid
ItemOfRowAlone(src) ==
    _extract_items_from_tables(<< <<src.header, src.row>> >>)[1]

\* C16: the items of the record are one item per named row behind a
\* header row, first those of the first grid in row order, then those of
\* the second grid, and so on; the k-th item is the item of the k-th such
\* row, also where a row of the same content came before it
ItemsConcatenatedInGridOrder ==
    pc = "from_pdf" =>
        /\ Len(invoice.items) = Len(Sources)
        /\ \A k \in 1..Len(Sources) :
               invoice.items[k] = ItemOfRowAlone(Sources[k])

\* the grid with the rows 筆 and 紙, then the grid with the rows 紙 and
\* 筆: four items, 筆, 紙, 紙, 筆; the rows of the second grid give
\* their items again, behind those of the first and in their own order
TwoGridsGiveItemsInGridOrder ==
    /\ pc = "from_pdf"
    /\ tables = <<GridItems, GridItemsReversed>>
    /\ Len(invoice.items) = 4
    /\ invoice.items[1].name = <<c_bi>>
    /\ invoice.items[2].name = <<c_zhi>>
    /\ invoice.items[3] = invoice.items[2]
    /\ invoice.items[4] = invoice.items[1]

---------------------------------------------------------------------------
(* Properties of the identifier candidates, under SpecIds.                 *)

\* the 8-digit tokens of the text, in order
Tokens == TaxIdFindAll(text, 1)

\* positions of the tokens that satisfy the checksum rule
ValidTokenPositions == {k \in 1..Len(Tokens) : ChecksumRule(Tokens[k])}

\* the first valid token, <<>> if there is none
FirstValidToken ==
    IF ValidTokenPositions = {} THEN <<>> ELSE Tokens[Min(ValidTokenPositions)]

\* the first valid token that differs from the first one, <<>> if none
SecondValidToken ==
    LET others == {k \in ValidTokenPositions : Tokens[k] # FirstValidToken}
    IN  IF others = {} THEN <<>> ELSE Tokens[Min(others)]

\* C17: the seller id is the first token of the text that passes the
\* checksum and the buyer id the first valid token different from it;
\* invalid tokens and repetitions of the first token take no place, and
\* no third identifier is returned
SellerBuyerAreFirstTwoDistinctValid ==
    pc = "from_text" =>
        /\ invoice.seller_id = FirstValidToken
        /\ invoice.buyer_id = SecondValidToken
        /\ _extract_tax_ids(text)
             = SelectSeq(<<FirstValidToken, SecondValidToken>>,
                         LAMBDA id : id # <<>>)

\* 53212539 12345678 53212539 12345675: the buyer is the fourth token
RepeatedAndInvalidTokensSkipped ==
    /\ pc = "from_text"
    /\ Tokens = <<Id53212539, Id12345678, Id53212539, Id12345675>>
    /\ invoice.seller_id = Id53212539
    /\ invoice.buyer_id = Id12345675

---------------------------------------------------------------------------
(* Changing one digit of an accepted identifier, under SpecValidator.      *)

\* C18: when the validator accepts an identifier of 8 digits whose digit
\* at index 6 is not 7, it rejects every identifier that differs from it
\* in exactly one digit and has no 7 at index 6 either
OneDigitChangeRejected ==
    (/\ pc = "validated"
     /\ verdict = "valid"
     /\ Len(text) = 8
     /\ \A i \in 1..8 : text[i] \in AsciiDigit
     /\ text[7] # "7") =>
        \A i \in 1..8 : \A d \in AsciiDigit \ {text[i]} :
            (i = 7 => d # "7") =>
                ~_is_valid_taiwan_tax_id([text EXCEPT ![i] = d])

\* 53212539 is accepted; with its last digit changed to 8 it is 53212538,
\* which the checksum refuses
AcceptedIdWithoutSeven ==
    /\ pc = "validated"
    /\ text = Id53212539
    /\ verdict = "valid"
    /\ ChecksumTotal([text EXCEPT ![8] = "8"]) % 10 # 0

---------------------------------------------------------------------------
(* The format test of the validator, under SpecFormat.                     *)

\* C19: the validator returns false, and raises nothing, for every string
\* that is not exactly 8 ASCII digits: another length, or 8 characters
\* one of which is a letter, a punctuation mark, a full-width digit or
\* another non-ASCII digit
NotEightAsciiDigitsRejected ==
    (/\ pc = "validated"
     /\ ~(Len(text) = 8 /\ \A i \in 1..8 : text[i] \in AsciiDigit)) =>
        verdict = "invalid"

---------------------------------------------------------------------------
(* Confidence against the populated fields, under SpecFields.              *)

\* the checklist fields that are populated in the record r
PopulatedSet(r, has_tables) ==
    {f \in {"invoice_number", "invoice_date", "seller_id", "buyer_id",
            "seller_name", "buyer_name", "total_amount", "items"} :
        CASE f = "invoice_number" -> r.invoice_number # <<>>
          [] f = "invoice_date" -> r.invoice_date # <<>>
          [] f = "seller_id" -> r.seller_id # <<>>
          [] f = "buyer_id" -> r.buyer_id # <<>>
          [] f = "seller_name" -> r.seller_name # <<>>
          [] f = "buyer_name" -> r.buyer_name # <<>>
          [] f = "total_amount" -> FPositive(r.total_amount)
          [] f = "items" -> has_tables /\ r.items # <<>>}

\* the record of the document with text t and tables g
RecordOf(t, g) == _extract_invoice_data(t, g)

\* C20: of two documents that both have tables or both have none, the one
\* whose populated checklist fields include those of the other has at
\* least its confidence; so a fragment added to the text that adds a field
\* does not lower the confidence
ConfidenceMonotone ==
    Returned =>
        \A t \in FieldTexts : \A g \in FieldTables :
            LET other == RecordOf(t, g)
            IN  /\ (g # <<>>) = (tables # <<>>)
                /\ PopulatedSet(invoice, tables # <<>>)
                     \subseteq PopulatedSet(other, g # <<>>)
                => other.confidence.num * invoice.confidence.den
                     >= invoice.confidence.num * other.confidence.den

\* the text AB12345678 has been read: confidence 1/7; with 合計 1,050
\* added to it the total is populated as well and the confidence is 2/7
FieldAddedRaisesConfidence ==
    /\ pc = "from_text"
    /\ text = NoAB12345678 \o <<" ">>
    /\ invoice.confidence = [num |-> 1, den |-> 7]
    /\ PopulatedSet(RecordOf(text \o <<c_he, c_ji, " ", "1", ",", "0", "5",
                                       "0", " ">>, <<>>), FALSE)
         = {"invoice_number", "total_amount"}
    /\ RecordOf(text \o <<c_he, c_ji, " ", "1", ",", "0", "5", "0", " ">>,
                <<>>).confidence = [num |-> 2, den |-> 7]

---------------------------------------------------------------------------
(* Malformed figures, under SpecAmounts.                                   *)

\* the pattern of kws matches in the text and its figure has no digit, so
\* that float() rejects it
Malformed(kws) ==
    /\ AmountSearch(text, kws) # <<>>
    /\ \A i \in 1..Len(AmountSearch(text, kws)) :
           AmountSearch(text, kws)[i] \notin Digit

\* C21: a figure whose text is malformed is absent: it is not an operand
\* of the derivation of the subtotal, so without a match of the subtotal
\* pattern and with a malformed total or tax figure the subtotal stays 0;
\* the other figures keep the values parsed from their own text
MalformedFigureIsAbsent ==
    pc = "from_text" =>
        /\ (/\ AmountSearch(text, SubtotalKeywords) = <<>>
            /\ Malformed(TotalKeywords) \/ Malformed(TaxKeywords))
             => FIsZero(invoice.subtotal)
        /\ Malformed(TotalKeywords)
             => invoice.tax_amount
                  = _parse_amount(AmountSearch(text, TaxKeywords))
        /\ Malformed(TaxKeywords)
             => invoice.total_amount
                  = _parse_amount(AmountSearch(text, TotalKeywords))

---------------------------------------------------------------------------
(* The raw text of the record, under Spec.                                 *)

\* C22: every returned record, from a decoded PDF or from text, carries
\* the text of the document in raw_text
RawTextKept == Returned => invoice.raw_text = text

---------------------------------------------------------------------------
(* The digits of the invoice number, under Spec.                           *)

\* where the invoice number pattern first matches in the text, 0 if
\* nowhere
NumberStart ==
    LET starts == {i \in 1..Len(text) : InvoiceNumberMatchLen(text, i) > 0}
    IN  IF starts = {} THEN 0 ELSE Min(starts)

\* where the 8 digits of the matched invoice number begin
NumberDigitsStart ==
    NumberStart + InvoiceNumberMatchLen(text, NumberStart) - 8

\* where the runs of exactly 8 digits of the text begin
DigitRuns8 ==
    {i \in 1..Len(text) :
        /\ AllAt(text, i, 8, Digit)
        /\ ~IsAt(text, i - 1, Digit)
        /\ ~IsAt(text, i + 8, Digit)}

\* C29: in a text whose only run of 8 digits is the digit part of its
\* invoice number, with or without the hyphen or space after the two
\* letters, these digits are reported neither as seller nor as buyer
\* identifier
NumberDigitsAreNoIdentifier ==
    (Returned /\ NumberStart > 0 /\ DigitRuns8 = {NumberDigitsStart})
        => invoice.seller_id = <<>> /\ invoice.buyer_id = <<>>

---------------------------------------------------------------------------
(* Seller before buyer, under Spec.                                        *)

\* C28: the seller slot is filled before the buyer slot: a buyer id comes
\* with a seller id that differs from it, and a buyer name with a seller
\* name that differs from it
SellerFilledBeforeBuyer ==
    Returned =>
        /\ invoice.buyer_id # <<>>
             => invoice.seller_id # <<>>
                  /\ invoice.seller_id # invoice.buyer_id
        /\ invoice.buyer_name # <<>>
             => invoice.seller_name # <<>>
                  /\ invoice.seller_name # invoice.buyer_name

\* ZC-12345675 稅額 50, then 53212539 12345675, then 大天公司 天大企業
\* 合計 1,050: the identifier 12345675 is found twice and 53212539
\* once; both buyer slots are filled
BothSlotsFilledFromRepeats ==
    /\ Returned
    /\ Len(TaxIdFindAll(text, 1)) = 3
    /\ invoice.seller_id = Id12345675
    /\ invoice.buyer_id = Id53212539
    /\ invoice.seller_name = <<c_da, c_tian, c_gong, c_si>>
    /\ invoice.buyer_name = <<c_tian, c_da, c_qi, c_ye>>

---------------------------------------------------------------------------
(* Names, under SpecNames.                                                 *)

\* the matches of the four patterns, pattern by pattern
AllNameMatches ==
    SuffixNameFindAll(text, 1)
      \o LabelNameFindAll(text, 1, NameLabels[1])
      \o LabelNameFindAll(text, 1, NameLabels[2])
      \o LabelNameFindAll(text, 1, NameLabels[3])

AtLeastTwoLong(m) == Len(m) >= 2

\* the first match of at least 2 characters, <<>> if there is none
FirstName ==
    LET c == SelectSeq(AllNameMatches, AtLeastTwoLong)
    IN  IF c = <<>> THEN <<>> ELSE c[1]

NotFirstName(m) == Len(m) >= 2 /\ m # FirstName

\* the first match of at least 2 characters that differs from FirstName
SecondName ==
    LET c == SelectSeq(AllNameMatches, NotFirstName)
    IN  IF c = <<>> THEN <<>> ELSE c[1]

\* C25: the names are the matches of the suffix pattern, then of the
\* seller, buyer and business-entity label patterns, without repeats, in
\* first-seen order; the seller name is the first and the buyer name the
\* second of them, they differ and have at least 2 characters
NamesAreFirstTwoDistinctMatches ==
    pc = "from_text" =>
        /\ invoice.seller_name = FirstName
        /\ invoice.buyer_name = SecondName
        /\ invoice.seller_name # <<>> => Len(invoice.seller_name) >= 2
        /\ invoice.buyer_name # <<>>
             => /\ Len(invoice.buyer_name) >= 2
                /\ invoice.buyer_name # invoice.seller_name

\* 買方:大 賣方：天大 大天公司 has been read: the suffix pattern comes
\* first, the name of one character is left out
SuffixNameBeforeLabelName ==
    /\ pc = "from_text"
    /\ text = <<c_mai2, c_fang, ":", c_da, " ",
                c_mai, c_fang, c_fcolon, c_tian, c_da, " ",
                c_da, c_tian, c_gong, c_si, " ">>
    /\ AllNameMatches = << <<c_da, c_tian, c_gong, c_si>>, <<c_tian, c_da>>,
                           <<c_da>> >>
    /\ invoice.seller_name = <<c_da, c_tian, c_gong, c_si>>
    /\ invoice.buyer_name = <<c_tian, c_da>>

---------------------------------------------------------------------------
(* Absent fields, under SpecSparse.                                        *)

\* no figure of the three amount patterns is found in the text
NoAmountFound ==
    /\ AmountSearch(text, TotalKeywords) = <<>>
    /\ AmountSearch(text, TaxKeywords) = <<>>
    /\ AmountSearch(text, SubtotalKeywords) = <<>>

\* no token of 8 digits of the text passes the checksum
NoIdentifierFound ==
    \A k \in 1..Len(TaxIdFindAll(text, 1)) :
        ~ChecksumRule(TaxIdFindAll(text, 1)[k])

\* C24: absence is no error: a record is returned without raising, and a
\* category that found nothing leaves its field at the empty string, zero
\* or the empty sequence; a document in which nothing is found has
\* confidence 0
AbsenceIsNoError ==
    pc # "input" =>
        /\ Returned
        /\ NumberStart = 0 => invoice.invoice_number = <<>>
        /\ (DateTwStarts(text) = {} /\ DateWesternStarts(text) = {})
             => invoice.invoice_date = <<>>
        /\ NoIdentifierFound
             => invoice.seller_id = <<>> /\ invoice.buyer_id = <<>>
        /\ FirstName = <<>>
             => invoice.seller_name = <<>> /\ invoice.buyer_name = <<>>
        /\ NoAmountFound
             => /\ invoice.total_amount = FZero(FALSE)
                /\ invoice.tax_amount = FZero(FALSE)
                /\ invoice.subtotal = FZero(FALSE)
        /\ Sources = <<>> => invoice.items = <<>>
        /\ (/\ NumberStart = 0
            /\ DateTwStarts(text) = {} /\ DateWesternStarts(text) = {}
            /\ NoIdentifierFound
            /\ FirstName = <<>>
            /\ NoAmountFound
            /\ Sources = <<>>)
             => invoice.confidence.num = 0

\* x53212539 合 計 5 with a grid without rows and a grid without header
\* row has been read: every field is at its default, the confidence is
\* 0 of 8
NothingFoundInDocument ==
    /\ pc = "from_pdf"
    /\ text = <<"x">> \o Id53212539 \o <<" ", c_he, " ", c_ji, " ", "5", "\n">>
    /\ tables = <<<<>>, GridNoHeader>>
    /\ invoice = [InvoiceData EXCEPT !.raw_text = text,
                                     !.confidence = [num |-> 0, den |-> 8]]

---------------------------------------------------------------------------
(* The line items through to_dict and run_automation, under                *)
(* SpecRoundTrip.                                                          *)

\* C30: the items rebuilt by run_automation from the dictionary of an
\* extracted record have the name, quantity, unit price and amount of
\* the items of that record
ItemsSurviveRoundTrip ==
    pc = "automation" =>
        /\ Len(invoice.items) = Len(_extract_items_from_tables(tables))
        /\ \A k \in 1..Len(invoice.items) :
               invoice.items[k] = _extract_items_from_tables(tables)[k]

---------------------------------------------------------------------------
(* Failures of the document, under SpecPath.                               *)

SuffixIsPdf ==
    file_path.suffix \in {<<".", x, y, z>> : x \in {"p", "P"},
                                             y \in {"d", "D"},
                                             z \in {"f", "F"}}

\* a path that does not exist raises FileNotFoundError, an existing one
\* whose suffix is not .pdf raises ValueError, and neither gives a record
\* or runs a field extraction
DocumentFailuresRaise ==
    pc # "input" =>
        /\ file_path.kind = "missing"
             => /\ pc = "raised" /\ verdict = "FileNotFoundError"
                /\ invoice = InvoiceData
        /\ (file_path.kind # "missing" /\ ~SuffixIsPdf)
             => /\ pc = "raised" /\ verdict = "ValueError"
                /\ invoice = InvoiceData

\* C27 as stated: the two failures above, and extraction from a path
\* fails for no other input
OnlyMissingOrWrongSuffixFails ==
    /\ DocumentFailuresRaise
    /\ pc = "raised" => file_path.kind = "missing" \/ ~SuffixIsPdf

\* the existence test of the path has answered
StatAnswers == file_path.stat = "answers"

\* the decoder is handed the path and raises on what is there
DecoderRaises ==
    /\ StatAnswers
    /\ file_path.kind \in {"directory", "unreadable"}
    /\ SuffixIsPdf

\* C27, amended: where the existence test answers, a path with nothing
\* at it raises FileNotFoundError and an existing one whose suffix is
\* not .pdf raises ValueError; where the existence test itself fails
\* (the name is too long, a directory on the way may not be searched)
\* its error leaves extract_from_pdf, whatever the suffix; an existing
\* path with the suffix .pdf goes to the decoder, and where the decoder
\* raises (a directory, a file that is no readable PDF) its error leaves
\* extract_from_pdf; none of these builds a record, and extraction from
\* a path fails in these four ways only
DocumentFailuresAndDecoderFailure ==
    pc # "input" =>
        /\ (StatAnswers /\ file_path.kind = "missing")
             => /\ pc = "raised" /\ verdict = "FileNotFoundError"
                /\ invoice = InvoiceData
        /\ (StatAnswers /\ file_path.kind # "missing" /\ ~SuffixIsPdf)
             => /\ pc = "raised" /\ verdict = "ValueError"
                /\ invoice = InvoiceData
        /\ ~StatAnswers
             => /\ pc = "raised" /\ verdict = file_path.stat
                /\ invoice = InvoiceData
        /\ DecoderRaises
             => /\ pc = "raised" /\ verdict = "DecoderError"
                /\ invoice = InvoiceData
        /\ pc = "raised"
             => \/ ~StatAnswers
                \/ file_path.kind = "missing"
                \/ ~SuffixIsPdf
                \/ DecoderRaises

\* a file under a name that ends in .pdf which the decoder cannot read:
\* the decoder's error has left extract_from_pdf
UnreadablePdfFails ==
    /\ pc = "raised"
    /\ verdict = "DecoderError"
    /\ file_path = [kind |-> "unreadable", suffix |-> <<".", "p", "d", "f">>,
                    stat |-> "answers"]
    /\ invoice = InvoiceData

---------------------------------------------------------------------------
(* Calls in a row on one extractor, under SpecCalls.                       *)

\* the record extract_from_pdf gives for a document handled alone
RecordAlone(doc) ==
    [_extract_invoice_data(doc.text, doc.tables) EXCEPT !.raw_text = doc.text]

\* C23: whatever documents the extractor processed before, the record a
\* call returns is the one a fresh extractor returns for the document
CallsKeepNoState ==
    \A w \in DOMAIN workers :
        \A k \in DOMAIN workers[w].done :
            workers[w].done[k].record = RecordAlone(workers[w].done[k].doc)

\* the extractor has returned a record with identifiers and items, and
\* then, for the document without text and header row, a record with
\* every field at its default and confidence 0 of 8
EmptyRecordAfterFullRecord ==
    /\ Len(workers) = 1
    /\ Len(workers[1].done) = 2
    /\ workers[1].done[1].record.seller_id = Id53212539
    /\ workers[1].done[1].record.items # <<>>
    /\ workers[1].done[2].doc = [text |-> <<>>, tables |-> <<GridNoHeader>>]
    /\ workers[1].done[2].record
         = [InvoiceData EXCEPT !.confidence = [num |-> 0, den |-> 8]]

---------------------------------------------------------------------------
(* Workers side by side, under SpecWorkers.                                *)

\* C26: under every interleaving of the workers' steps the record of
\* each worker is the one its document gives alone, what a worker has at
\* hand is its own document, and a step writes the state of one worker
WorkersDoNotInterfere ==
    /\ [](\A w \in DOMAIN workers :
            /\ \A k \in DOMAIN workers[w].done :
                   /\ k = 1
                   /\ workers[w].done[k].record
                        = RecordAlone(workers[w].done[k].doc)
            /\ workers[w].pc # "idle"
                 => /\ workers[w].text = Head(workers[w].queue).text
                    /\ workers[w].tables = Head(workers[w].queue).tables)
    /\ [][\A w \in DOMAIN workers :
            workers'[w] # workers[w]
              => \A v \in DOMAIN workers \ {w} : workers'[v] = workers[v]]_vars

\* both workers have returned: the first the record with identifiers and
\* 2 items, the second the record of the document without text
TwoWorkersReturned ==
    /\ Len(workers) = 2
    /\ workers[1].pc = "idle" /\ Len(workers[1].done) = 1
    /\ workers[2].pc = "idle" /\ Len(workers[2].done) = 1
    /\ workers[1].done[1].record.seller_id = Id53212539
    /\ Len(workers[1].done[1].record.items) = 2
    /\ workers[1].done[1].record.confidence = [num |-> 4, den |-> 8]
    /\ workers[2].done[1].record
         = [InvoiceData EXCEPT !.confidence = [num |-> 0, den |-> 8]]

=============================================================================
